---- MODULE Spec2Model ----
(***************************************************************************)
(* Comment-parsing engine of the CodeRabbit MCP server: classifier,        *)
(* field extractors, parsing orchestrator, batch parser, actionability     *)
(* filter (src/utils/bot-parser.ts, src/types/bots.ts) and the             *)
(* CodeRabbitService operations built on them (src/services/coderabbit.ts).*)
(*                                                                         *)
(* A comment body is a sequence of tokens.  Each token stands for one      *)
(* fixed piece of text, chosen so that every literal of the extractors'    *)
(* regular expressions starts and ends on a token boundary:                *)
(*   "A"   <summary>(robot) Prompt for AI Agents</summary>                 *)
(*   "F"   a fence of three backticks                                      *)
(*   "N"   a newline                                                       *)
(*   " "   a space                                                         *)
(*   "x"   a word of plain text      "y"  another word of plain text       *)
(*   "s"   the word  suggestion      "d"  the word  diff                   *)
(*   "T1"  <summary>(screwdriver) ESLint </summary>                        *)
(*   "T2"  <summary>(screwdriver) TypeScript</summary>                     *)
(*   "T3"  <summary>(screwdriver)   </summary>   (a name of blanks)        *)
(*   "C"   (memo) Committable suggestion                                   *)
(*   "P"   **Prompt for AI Agents:**                                       *)
(* Two fences never stand next to each other in a modelled body, so the    *)
(* three-backtick literal occurs exactly at the "F" tokens.                *)
(***************************************************************************)
EXTENDS Integers, Sequences, FiniteSets, TLC

VARIABLES comment, comments, review, reviews, parsed, call, ret, botAnalyses, storeCalls

\* GitHubService: the circuit breaker fields, the clock read by Date.now(),
\* the makeRequest calls in flight, and the number of requests that ended in
\* failure since the last one that succeeded
VARIABLES circuitBreakerState, consecutiveFailures, lastFailureTime, now, requests,
          failedInARow

githubVars ==
    <<circuitBreakerState, consecutiveFailures, lastFailureTime, now, requests,
      failedInARow>>

parserVars == <<comment, comments, review, reviews, parsed, botAnalyses, storeCalls>>

\* DatabaseService and the sync of GitHubService: the connection, the rows
\* of the two tables, the arguments of the last call, the syncPrComments
\* call in progress and the review comments it was answered with
VARIABLES db, prTable, commentTable, arg, sync, fetched

databaseVars == <<db, prTable, commentTable, arg, sync, fetched>>

vars == <<parserVars, call, ret, githubVars, databaseVars>>

(***************************************************************************)
(* Bounds of the model.                                                    *)
(***************************************************************************)
MaxBodyLen == 4

MaxBatch == 2

MaxReviewBodyLen == 3

MaxToolBodyLen == 3

MaxReviewBatch == 3

MaxStoreCalls == 3

\* makeRequest calls that may be in flight together
MaxInFlight == 2

\* the clock is followed for MaxTicks steps of ClockStep milliseconds
MaxTicks == 3

\* rows of the pr table and of the comment table
MaxPrRows == 2

MaxCommentRows == 2

\* review comments in one answer of the GitHub API
MaxFetched == 2

(***************************************************************************)
(* JavaScript values.                                                      *)
(***************************************************************************)
Undefined == [t |-> "undefined", v |-> <<>>]

Null == [t |-> "null", v |-> <<>>]

Str(s) == [t |-> "string", v |-> s]

\* a value that is neither a string nor null nor undefined: a non-zero number
Num == [t |-> "number", v |-> <<>>]

IsString(val) == val.t = "string"

\* !!val for a value that is a string, a non-zero number, null or undefined
Truthy(val) == (val.t = "string" /\ val.v # <<>>) \/ val.t = "number"

\* a completed call: a returned value or a thrown error
Return(val) == [thrown |-> "none", value |-> val]

Throw(err) == [thrown |-> err, value |-> Undefined]

Min(S) == CHOOSE i \in S : \A j \in S : i <= j

Max(S) == CHOOSE i \in S : \A j \in S : i >= j

(***************************************************************************)
(* String.prototype.trim on a token sequence.                              *)
(***************************************************************************)
Whitespace == {"N", " "}

Trim(s) ==
    LET keep == {i \in 1..Len(s) : s[i] \notin Whitespace}
    IN  IF keep = {} THEN <<>> ELSE SubSeq(s, Min(keep), Max(keep))

\* match?.[1]?.trim() : undefined when there is no match
TrimCapture(m) == IF m.t = "string" THEN Str(Trim(m.v)) ELSE Undefined

(***************************************************************************)
(* Field extractors of parseCodeRabbitComment.  String.prototype.match     *)
(* returns the leftmost match; a lazy quantifier takes the shortest        *)
(* extension that lets the rest of the pattern match.  Each operator       *)
(* returns the captured group as a string, or Undefined without a match.   *)
(***************************************************************************)
\* positions of a fence at or after position from
Fences(b, from) == {k \in from..Len(b) : b[k] = "F"}

\* /<summary>(robot) Prompt for AI Agents<\/summary>[\s\S]*?```\n([\s\S]+?)```/
AiOpeners(b, a) ==
    {j \in (a + 1)..(Len(b) - 1) :
        b[j] = "F" /\ b[j + 1] = "N" /\ Fences(b, j + 3) # {}}

\* variant: a fence that is never closed captures the rest of the body
aiPromptMatch_openEnded(b) ==
    LET starts == {a \in 1..Len(b) : b[a] = "A" /\
                       \E j \in (a + 1)..(Len(b) - 2) : b[j] = "F" /\ b[j + 1] = "N"}
    IN  IF starts = {} THEN Undefined
        ELSE LET a == Min(starts)
                 j == Min({j \in (a + 1)..(Len(b) - 2) : b[j] = "F" /\ b[j + 1] = "N"})
                 k == IF Fences(b, j + 3) = {} THEN Len(b) + 1 ELSE Min(Fences(b, j + 3))
             IN  Str(SubSeq(b, j + 2, k - 1))

\* variant: the first untagged fenced block matches wherever it stands
aiPromptMatch_unanchored(b) ==
    LET opens == {j \in 1..(Len(b) - 1) :
                     b[j] = "F" /\ b[j + 1] = "N" /\ Fences(b, j + 3) # {}}
    IN  IF opens = {} THEN Undefined
        ELSE LET j == Min(opens)
                 k == Min(Fences(b, j + 3))
             IN  Str(SubSeq(b, j + 2, k - 1))

aiPromptMatch(b) ==
    LET starts == {a \in 1..Len(b) : b[a] = "A" /\ AiOpeners(b, a) # {}}
    IN  IF starts = {} THEN Undefined
        ELSE LET a == Min(starts)
                 j == Min(AiOpeners(b, a))
                 k == Min(Fences(b, j + 3))
             IN  Str(SubSeq(b, j + 2, k - 1))

\* /```<tag>\n([\s\S]+?)```/ for the tags diff and suggestion
TaggedOpeners(b, tag) ==
    {j \in 1..(Len(b) - 2) :
        b[j] = "F" /\ b[j + 1] = tag /\ b[j + 2] = "N" /\ Fences(b, j + 4) # {}}

taggedFenceMatch(b, tag) ==
    IF TaggedOpeners(b, tag) = {} THEN Undefined
    ELSE LET j == Min(TaggedOpeners(b, tag))
             k == Min(Fences(b, j + 4))
         IN  Str(SubSeq(b, j + 3, k - 1))

diffMatch(b) == taggedFenceMatch(b, "d")

suggestedCodeMatch(b) == taggedFenceMatch(b, "s")

\* /(memo) Committable suggestion[\s\S]*?```[\s\S]*?\n([\s\S]+?)```/
CommitNewlines(b, j) ==
    {n \in (j + 1)..Len(b) : b[n] = "N" /\ Fences(b, n + 2) # {}}

CommitOpeners(b, c) ==
    {j \in (c + 1)..Len(b) : b[j] = "F" /\ CommitNewlines(b, j) # {}}

committableMatch(b) ==
    LET starts == {c \in 1..Len(b) : b[c] = "C" /\ CommitOpeners(b, c) # {}}
    IN  IF starts = {} THEN Undefined
        ELSE LET c == Min(starts)
                 j == Min(CommitOpeners(b, c))
                 n == Min(CommitNewlines(b, j))
                 k == Min(Fences(b, n + 2))
             IN  Str(SubSeq(b, n + 1, k - 1))

\* /<summary>(screwdriver) ([^<]+)<\/summary>/g : the text captured by one marker
ToolTokens == {"T1", "T2", "T3"}

ToolCapture(tok) ==
    CASE tok = "T1" -> <<"ESLint", " ">>
      [] tok = "T2" -> <<"TypeScript">>
      [] OTHER -> <<" ">>

RECURSIVE toolsMatches(_)
toolsMatches(b) ==
    IF b = <<>> THEN <<>>
    ELSE IF Head(b) \in ToolTokens
         THEN <<ToolCapture(Head(b))>> \o toolsMatches(Tail(b))
         ELSE toolsMatches(Tail(b))

\* variant: a tool that was already listed is not listed again
RECURSIVE Dedup(_)
Dedup(s) ==
    IF s = <<>> THEN <<>>
    ELSE LET init == Dedup(SubSeq(s, 1, Len(s) - 1))
         IN  IF \E i \in 1..Len(init) : init[i] = s[Len(s)] THEN init
             ELSE Append(init, s[Len(s)])

tools_dedup(b) == Dedup([i \in 1..Len(toolsMatches(b)) |-> Trim(toolsMatches(b)[i])])

\* toolsMatches.map(m => m[1]).filter(is string).map(t => t.trim())
tools(b) == [i \in 1..Len(toolsMatches(b)) |-> Trim(toolsMatches(b)[i])]

(***************************************************************************)
(* Comment model (src/types/bots.ts).  A comment is a function from field  *)
(* names to values, so that the object spread of the parser can be         *)
(* modelled key by key.  The optional fields may be missing.               *)
(***************************************************************************)
Author(login) == [t |-> "object", login |-> login]

\* a comment delivered without its author field
NoAuthor == [t |-> "undefined", login |-> ""]

RequiredFields == {"commentId", "body", "author", "createdAt", "url"}

OptionalFields == {"path", "position", "isResolved", "isOutdated", "isMinimized"}

BaseComment(id, author, body, full) ==
    [k \in RequiredFields \cup (IF full THEN OptionalFields ELSE {}) |->
        CASE k = "commentId" -> id
          [] k = "body" -> body
          [] k = "author" -> author
          [] k = "createdAt" -> "2025-08-27T12:00:00Z"
          [] k = "url" -> "https://github.com/owner/repo/pull/1"
          [] k = "path" -> "src/test.ts"
          [] k = "position" -> 10
          [] OTHER -> FALSE]

(***************************************************************************)
(* isCodeRabbitComment (src/types/bots.ts): reading .login of a missing    *)
(* author raises a TypeError.                                              *)
(***************************************************************************)
isCodeRabbitComment(c) ==
    IF c["author"].t # "object" THEN Throw("TypeError")
    ELSE Return(c["author"].login = "coderabbitai"
                \/ c["author"].login = "coderabbitai[bot]")

(***************************************************************************)
(* The remaining extractors of parseCodeRabbitComment.  Their markers are  *)
(* the tokens                                                              *)
(*   "Y"   _(warning) Potential issue_     "H"   ### Title                 *)
(*   "B"   **                              "I"   <!-- fingerprinting:type:suggestion --> *)
(* Two "B" never stand next to each other in a modelled body.              *)
(***************************************************************************)
AtLineStart(b, i) == i = 1 \/ b[i - 1] = "N"

\* /^_((?:glyph).+?)_/m
typeMatch(b) ==
    IF \E i \in 1..Len(b) : b[i] = "Y" /\ AtLineStart(b, i)
    THEN Str(<<"(warning)", " ", "Potential issue">>)
    ELSE Undefined

\* .replace(/^(?:glyph)\s*/, '')
RECURSIVE DropLeadingWhitespace(_)
DropLeadingWhitespace(s) ==
    IF s # <<>> /\ Head(s) \in Whitespace THEN DropLeadingWhitespace(Tail(s)) ELSE s

StripGlyph(m) ==
    IF m.t # "string" THEN Undefined
    ELSE IF m.v # <<>> /\ Head(m.v) = "(warning)"
         THEN Str(DropLeadingWhitespace(Tail(m.v)))
         ELSE m

\* /^###\s+(.+)$/m : the capture runs to the end of the line
LineEnd(b, i) ==
    LET nl == {n \in i..Len(b) : b[n] = "N"}
    IN  IF nl = {} THEN Len(b) ELSE Min(nl) - 1

headingMatch(b) ==
    LET starts == {i \in 1..Len(b) : b[i] = "H" /\ AtLineStart(b, i)}
    IN  IF starts = {} THEN Undefined
        ELSE LET i == Min(starts)
             IN  Str(<<"Title">> \o SubSeq(b, i + 1, LineEnd(b, i)))

\* /\*\*(.+?)\*\*/ : the capture holds no newline
SummaryClosers(b, i) ==
    {k \in (i + 2)..Len(b) :
        b[k] = "B" /\ \A n \in (i + 1)..(k - 1) : b[n] # "N"}

summaryMatch(b) ==
    LET starts == {i \in 1..Len(b) : b[i] = "B" /\ SummaryClosers(b, i) # {}}
    IN  IF starts = {} THEN Undefined
        ELSE LET i == Min(starts)
                 k == Min(SummaryClosers(b, i))
             IN  Str(SubSeq(b, i + 1, k - 1))

\* /<!-- fingerprinting:([a-z:]+) -->/
internalIdMatch(b) ==
    IF \E i \in 1..Len(b) : b[i] = "I" THEN Str(<<"type:suggestion">>)
    ELSE Undefined

(***************************************************************************)
(* parseCodeRabbitComment (src/utils/bot-parser.ts).                       *)
(***************************************************************************)
DerivedFields(b) ==
    [bot |-> "coderabbitai[bot]",
     type |-> StripGlyph(TrimCapture(typeMatch(b))),
     heading |-> TrimCapture(headingMatch(b)),
     summary |-> TrimCapture(summaryMatch(b)),
     diff |-> TrimCapture(diffMatch(b)),
     suggestedCode |-> TrimCapture(suggestedCodeMatch(b)),
     committableSuggestion |-> TrimCapture(committableMatch(b)),
     aiPrompt |-> TrimCapture(aiPromptMatch(b)),
     tools |-> tools(b),
     internalId |-> internalIdMatch(b)]

\* { ...comment, bot: ..., type: ..., ... } : later keys win
Spread(c, d) ==
    [k \in DOMAIN c \cup DOMAIN d |-> IF k \in DOMAIN d THEN d[k] ELSE c[k]]

\* variant: the bot tag repeats the spelling of the author login
parseCodeRabbitComment_loginTag(c) ==
    IF ~IsString(c["body"]) THEN Throw("TypeError")
    ELSE Return(Spread(c, [DerivedFields(c["body"].v) EXCEPT !.bot = c["author"].login]))

\* variant: the tools found are added to the tools the comment already has
parseCodeRabbitComment_mergeTools(c) ==
    IF ~IsString(c["body"]) THEN Throw("TypeError")
    ELSE Return(Spread(c, [DerivedFields(c["body"].v) EXCEPT
                              !.tools = (IF "tools" \in DOMAIN c THEN c["tools"] ELSE <<>>)
                                           \o tools(c["body"].v)]))

\* comment.body.match of a body that is not a string raises a TypeError
parseCodeRabbitComment(c) ==
    IF ~IsString(c["body"]) THEN Throw("TypeError")
    ELSE Return(Spread(c, DerivedFields(c["body"].v)))

(***************************************************************************)
(* parseComment, parseComments, filterActionableComments                   *)
(* (src/utils/bot-parser.ts).                                              *)
(***************************************************************************)
\* variant: the login is compared without regard to case
parseComment_anyCase(c) ==
    IF c["author"].t # "object" THEN Throw("TypeError")
    ELSE IF c["author"].login \in {"coderabbitai", "coderabbitai[bot]", "CodeRabbitAI"}
         THEN parseCodeRabbitComment(c)
         ELSE Return(c)

\* variant: only the bare handle is routed to the parser
parseComment_bareOnly(c) ==
    IF c["author"].t # "object" THEN Throw("TypeError")
    ELSE IF c["author"].login = "coderabbitai"
         THEN parseCodeRabbitComment(c)
         ELSE Return(c)

parseComment(c) ==
    IF c["author"].t # "object" THEN Throw("TypeError")
    ELSE IF c["author"].login = "coderabbitai"
            \/ c["author"].login = "coderabbitai[bot]"
         THEN parseCodeRabbitComment(c)
         ELSE Return(c)

\* variant: the batch keeps the parsed comments only
parseComments_botOnly(cs) ==
    LET rs == [i \in 1..Len(cs) |-> parseComment(cs[i])]
        bad == {i \in 1..Len(cs) : rs[i].thrown # "none"}
        keep(c) == "bot" \in DOMAIN c
    IN  IF bad # {} THEN Throw(rs[Min(bad)].thrown)
        ELSE Return(SelectSeq([i \in 1..Len(cs) |-> rs[i].value], keep))

\* comments.map(parseComment): the first element that throws ends the map
parseComments(cs) ==
    LET rs == [i \in 1..Len(cs) |-> parseComment(cs[i])]
        bad == {i \in 1..Len(cs) : rs[i].thrown # "none"}
    IN  IF bad # {} THEN Throw(rs[Min(bad)].thrown)
        ELSE Return([i \in 1..Len(cs) |-> rs[i].value])

HasBotTag(c) == "bot" \in DOMAIN c /\ c["bot"] = "coderabbitai[bot]"

\* variant: only the AI prompt makes a comment actionable
IsActionable_promptOnly(c) == HasBotTag(c) /\ Truthy(c["aiPrompt"])

IsActionable(c) ==
    IF HasBotTag(c)
    THEN Truthy(c["aiPrompt"]) \/ Truthy(c["suggestedCode"])
         \/ Truthy(c["committableSuggestion"])
    ELSE FALSE

filterActionableComments(cs) == SelectSeq(cs, IsActionable)

(***************************************************************************)
(* CodeRabbitService (src/services/coderabbit.ts).  A review comment of    *)
(* the GitHub API carries user.login, user.type and a body.                *)
(***************************************************************************)
User(login, type) == [t |-> "object", login |-> login, type |-> type]

NoUser == [t |-> "undefined", login |-> "", type |-> ""]

ReviewComment(id, user, body) == [t |-> "object", id |-> id, user |-> user, body |-> body]

NullReview == [t |-> "null", id |-> 0, user |-> NoUser, body |-> Undefined]

\* commentBody.includes('**Prompt for AI Agents:**')
IncludesPromptLabel(b) == \E i \in 1..Len(b) : b[i] = "P"

\* CodeRabbitService.isCodeRabbitComment; body.includes of a body that is not
\* a string raises a TypeError, which the method catches to return false
svcIsCodeRabbitComment(r) ==
    IF r.t # "object" \/ r.user.t # "object" \/ ~Truthy(r.body) THEN FALSE
    ELSE r.user.login = "coderabbitai" /\ r.user.type = "Bot"
         /\ IsString(r.body) /\ IncludesPromptLabel(r.body.v)

\* /\*\*Prompt for AI Agents:\*\*\s*(.+?)(?:\n|$)/ : \s* is greedy and gives
\* back whitespace until a character other than a newline follows it
PromptStarts(b, p) ==
    {i \in (p + 1)..Len(b) :
        b[i] # "N" /\ \A w \in (p + 1)..(i - 1) : b[w] \in Whitespace}

legacyPromptMatch(b) ==
    LET labels == {p \in 1..Len(b) : b[p] = "P" /\ PromptStarts(b, p) # {}}
    IN  IF labels = {} THEN Undefined
        ELSE LET p == Min(labels)
                 i == Max(PromptStarts(b, p))
             IN  Str(SubSeq(b, i, LineEnd(b, i)))

\* CodeRabbitService.extractAIPrompt
extractAIPrompt(body) ==
    IF ~Truthy(body) \/ ~IsString(body) THEN Throw("CommentParsingError")
    ELSE LET m == legacyPromptMatch(body.v)
         IN  IF Truthy(m) THEN Return([found |-> TRUE, prompt |-> Str(Trim(m.v))])
             ELSE Return([found |-> FALSE, prompt |-> Null])

IsCodeRabbitParsed(c) == HasBotTag(c)

\* variant: only the actionable comments of the bot are returned
parseCodeRabbitComments_actionableOnly(cs) ==
    LET r == parseComments(cs)
    IN  IF r.thrown # "none" THEN Throw("CodeRabbitError")
        ELSE Return(SelectSeq(r.value, IsActionable))

\* CodeRabbitService.parseCodeRabbitComments
parseCodeRabbitComments(cs) ==
    LET r == parseComments(cs)
    IN  IF r.thrown # "none" THEN Throw("CodeRabbitError")
        ELSE Return(SelectSeq(r.value, IsCodeRabbitParsed))

\* CodeRabbitService.analyzeEnhancedComment; storeOk is the outcome of the
\* databaseService.storeBotAnalysis call
analyzeEnhancedComment(c, storeOk) ==
    LET r == parseCodeRabbitComment(c)
    IN  IF r.thrown # "none" \/ ~storeOk THEN Return(Null) ELSE r

\* the record handed to databaseService.storeBotAnalysis
BotAnalysis(pc) ==
    [commentId |-> pc["commentId"], bot |-> "coderabbitai[bot]",
     aiPrompt |-> IF Truthy(pc["aiPrompt"]) THEN pc["aiPrompt"] ELSE Str(<<>>)]

\* the CodeRabbitAnalysis built by analyzeComment; extractedAt is the clock
\* reading of the call
Analysis(r) ==
    [commentId |-> r.id, aiPrompt |-> extractAIPrompt(r.body).value.prompt,
     extractedAt |-> "now"]

\* !comment || !comment.id || !comment.body ; an id of 0 stands for a missing id
InvalidStructure(r) == r.t # "object" \/ r.id = 0 \/ ~Truthy(r.body)

\* analyzeComment reaches databaseService.storeCodeRabbitAnalysis(analysis)
ReachesStore(r) ==
    ~InvalidStructure(r) /\ svcIsCodeRabbitComment(r)
        /\ extractAIPrompt(r.body).thrown = "none"

\* variant: the comment is analysed and stored without being classified
analyzeComment_unclassified(r, storeOk) ==
    IF InvalidStructure(r) THEN Throw("CommentParsingError")
    ELSE IF extractAIPrompt(r.body).thrown # "none" THEN Throw("CommentParsingError")
    ELSE IF ~storeOk THEN Throw("CodeRabbitError")
    ELSE Return(Analysis(r))

\* variant: an error of the storage call leaves the method as it was raised
analyzeComment_rawStoreError(r, storeOk) ==
    IF InvalidStructure(r) THEN Throw("CommentParsingError")
    ELSE IF ~svcIsCodeRabbitComment(r) THEN Return(Null)
    ELSE IF extractAIPrompt(r.body).thrown # "none" THEN Throw("CommentParsingError")
    ELSE IF ~storeOk THEN Throw("Error")
    ELSE Return(Analysis(r))

\* CodeRabbitService.analyzeComment; storeOk is the outcome of the
\* databaseService.storeCodeRabbitAnalysis call.  A CommentParsingError is
\* rethrown, any other error leaves as a CodeRabbitError.
analyzeComment(r, storeOk) ==
    IF InvalidStructure(r) THEN Throw("CommentParsingError")
    ELSE IF ~svcIsCodeRabbitComment(r) THEN Return(Null)
    ELSE IF extractAIPrompt(r.body).thrown # "none" THEN Throw("CommentParsingError")
    ELSE IF ~storeOk THEN Throw("CodeRabbitError")
    ELSE Return(Analysis(r))

\* the storeCodeRabbitAnalysis calls of analyzeComment, with their outcomes
StoreCallsOf(r, storeOk) ==
    IF ReachesStore(r) THEN <<[analysis |-> Analysis(r), ok |-> storeOk]>> ELSE <<>>

\* variant: the first comment that fails ends the loop
RECURSIVE processComments_stopAtFailure(_, _)
processComments_stopAtFailure(rs, oks) ==
    IF rs = <<>> THEN <<>>
    ELSE LET a == analyzeComment(Head(rs), Head(oks))
         IN  IF a.thrown # "none" THEN <<>>
             ELSE IF a.value # Null
                  THEN <<a.value>> \o processComments_stopAtFailure(Tail(rs), Tail(oks))
                  ELSE processComments_stopAtFailure(Tail(rs), Tail(oks))

\* CodeRabbitService.processComments: the results array; an error of
\* analyzeComment is caught and logged and the loop goes on
RECURSIVE processComments(_, _)
processComments(rs, oks) ==
    IF rs = <<>> THEN <<>>
    ELSE LET a == analyzeComment(Head(rs), Head(oks))
         IN  IF a.thrown = "none" /\ a.value # Null
             THEN <<a.value>> \o processComments(Tail(rs), Tail(oks))
             ELSE processComments(Tail(rs), Tail(oks))

RECURSIVE ProcessStoreCalls(_, _)
ProcessStoreCalls(rs, oks) ==
    IF rs = <<>> THEN <<>>
    ELSE StoreCallsOf(Head(rs), Head(oks)) \o ProcessStoreCalls(Tail(rs), Tail(oks))

(***************************************************************************)
(* GitHubService (src/services/github.ts): circuit breaker and retries of  *)
(* makeRequest.  A breaker value is the three fields of the service.       *)
(***************************************************************************)
maxConsecutiveFailures == 5

circuitBreakerTimeout == 60000

\* config.github.maxRetries
maxRetries == 3

\* milliseconds between two readings of the clock that the model tells apart
ClockStep == 30000

Breaker(state, failures, last) ==
    [state |-> state, failures |-> failures, lastFailure |-> last]

\* checkCircuitBreaker at time t: the breaker afterwards, and whether it threw
checkCircuitBreaker(b, t) ==
    IF b.state = "open"
    THEN IF t - b.lastFailure > circuitBreakerTimeout
         THEN [breaker |-> [b EXCEPT !.state = "half-open"], thrown |-> FALSE]
         ELSE [breaker |-> b, thrown |-> TRUE]
    ELSE [breaker |-> b, thrown |-> FALSE]

\* variant: the count of failures survives the closing of the breaker
recordSuccess_keepCount(b) ==
    IF b.state = "half-open" THEN [b EXCEPT !.state = "closed"]
    ELSE IF b.state = "closed" THEN [b EXCEPT !.failures = 0]
    ELSE b

\* variant: a success resets the count in every state
recordSuccess_anyState(b) ==
    IF b.state = "half-open" THEN [b EXCEPT !.state = "closed", !.failures = 0]
    ELSE [b EXCEPT !.failures = 0]

recordSuccess(b) ==
    IF b.state = "half-open" THEN [b EXCEPT !.state = "closed", !.failures = 0]
    ELSE IF b.state = "closed" THEN [b EXCEPT !.failures = 0]
    ELSE b

\* variant: the breaker opens one failure late
recordFailure_oneLate(b, t) ==
    [state |-> IF b.failures + 1 > maxConsecutiveFailures THEN "open" ELSE b.state,
     failures |-> b.failures + 1,
     lastFailure |-> t]

\* variant: only a closed breaker opens
recordFailure_fromClosedOnly(b, t) ==
    [state |-> IF b.state = "closed" /\ b.failures + 1 >= maxConsecutiveFailures
               THEN "open" ELSE b.state,
     failures |-> b.failures + 1,
     lastFailure |-> t]

recordFailure(b, t) ==
    [state |-> IF b.failures + 1 >= maxConsecutiveFailures THEN "open" ELSE b.state,
     failures |-> b.failures + 1,
     lastFailure |-> t]

\* what an attempt can end with: a 2xx response, an error response by status
\* ("403rl" is a 403 with x-ratelimit-remaining 0), or no response at all
Responses == {"200", "401", "403", "403rl", "404", "500", "network"}

\* variant: every error is retried while attempts are left
shouldRetry_anyError(response, attempt) ==
    attempt < maxRetries

shouldRetry(response, attempt) ==
    IF attempt >= maxRetries THEN FALSE
    ELSE IF response = "401" THEN FALSE
    ELSE IF response \in {"403", "403rl", "404"} THEN response = "403rl"
    ELSE TRUE

\* the error of a request that got no response
NoResponseError == "GitHubError: No response received"

handleAxiosError(response) ==
    CASE response = "401" -> "AuthenticationError"
      [] response = "403rl" -> "RateLimitError"
      [] response = "404" -> "NotFoundError"
      [] response = "403" -> "GitHubError: access forbidden"
      [] response = "network" -> NoResponseError
      [] OTHER -> "GitHubError: API error"

\* the error of checkCircuitBreaker
CircuitOpenError == "GitHubError: Circuit breaker is open"

\* a promise of makeRequest that has not settled
Pending == [t |-> "promise", v |-> <<>>]

\* response.data
Data == [t |-> "object", v |-> <<>>]

\* a makeRequest call: where it stands, its retries option, and whether its
\* checkCircuitBreaker moved the breaker to half-open
Idle == [pc |-> "idle", retries |-> 0, probe |-> FALSE]

\* the catch block logs 'Retrying GitHub API request' for the error it caught
Retrying(response) ==
    CASE response = "200" -> "makeRequest: retrying after 200"
      [] response = "401" -> "makeRequest: retrying after 401"
      [] response = "403" -> "makeRequest: retrying after 403"
      [] response = "403rl" -> "makeRequest: retrying after 403 (rate limit)"
      [] response = "404" -> "makeRequest: retrying after 404"
      [] response = "500" -> "makeRequest: retrying after 500"
      [] OTHER -> "makeRequest: retrying after no response"

MovedToHalfOpen(b, c) == b.state = "open" /\ c.breaker.state = "half-open"

GitHubServiceInit ==
    /\ circuitBreakerState = "closed"
    /\ consecutiveFailures = 0
    /\ lastFailureTime = 0
    /\ now = 0
    /\ requests = [s \in 1..MaxInFlight |-> Idle]
    /\ failedInARow = 0

breaker == Breaker(circuitBreakerState, consecutiveFailures, lastFailureTime)

SetBreaker(b) ==
    /\ circuitBreakerState' = b.state
    /\ consecutiveFailures' = b.failures
    /\ lastFailureTime' = b.lastFailure

\* time passes
Tick ==
    /\ now < MaxTicks * ClockStep
    /\ now' = now + ClockStep
    /\ UNCHANGED <<circuitBreakerState, consecutiveFailures, lastFailureTime, requests,
                   failedInARow, call, ret>>
    /\ UNCHANGED <<parserVars, databaseVars>>

\* makeRequest(endpoint, options) of a new request: checkCircuitBreaker, then
\* the request is handed to axios.  The call is kept in the first free place
\* of requests.
MakeRequest ==
    /\ \E s \in 1..MaxInFlight :
        /\ requests[s].pc = "idle"
        /\ \A u \in 1..(s - 1) : requests[u].pc # "idle"
        /\ LET c == checkCircuitBreaker(breaker, now)
           IN  /\ SetBreaker(c.breaker)
               /\ call' = "makeRequest"
               /\ IF c.thrown
                  THEN ret' = Throw(CircuitOpenError) /\ requests' = requests
                  ELSE /\ ret' = Return(Pending)
                       /\ requests' = [requests EXCEPT ![s] =
                                          [pc |-> "request", retries |-> 0,
                                           probe |-> MovedToHalfOpen(breaker, c)]]
    /\ UNCHANGED <<now, failedInARow>>
    /\ UNCHANGED <<parserVars, databaseVars>>

\* variant: recordFailure runs at every failed attempt
Respond_failurePerAttempt ==
    /\ \E s \in 1..MaxInFlight, response \in Responses :
        /\ requests[s].pc = "request"
        /\ IF response = "200"
           THEN /\ SetBreaker(recordSuccess(breaker))
                /\ call' = "makeRequest"
                /\ ret' = Return(Data)
                /\ requests' = [requests EXCEPT ![s] = Idle]
                /\ failedInARow' = 0
           ELSE IF shouldRetry(response, requests[s].retries)
           THEN /\ SetBreaker(recordFailure(breaker, now))
                /\ call' = Retrying(response)
                /\ ret' = Return(Pending)
                /\ requests' = [requests EXCEPT ![s].pc = "delay"]
                /\ UNCHANGED failedInARow
           ELSE /\ SetBreaker(recordFailure(breaker, now))
                /\ call' = "makeRequest"
                /\ ret' = Throw(handleAxiosError(response))
                /\ requests' = [requests EXCEPT ![s] = Idle]
                /\ failedInARow' = failedInARow + 1
    /\ UNCHANGED now
    /\ UNCHANGED <<parserVars, databaseVars>>

\* the attempt in flight settles: recordSuccess and return, or retry after a
\* delay, or recordFailure and throw
Respond ==
    /\ \E s \in 1..MaxInFlight, response \in Responses :
        /\ requests[s].pc = "request"
        /\ IF response = "200"
           THEN /\ SetBreaker(recordSuccess(breaker))
                /\ call' = "makeRequest"
                /\ ret' = Return(Data)
                /\ requests' = [requests EXCEPT ![s] = Idle]
                /\ failedInARow' = 0
           ELSE IF shouldRetry(response, requests[s].retries)
           THEN /\ call' = Retrying(response)
                /\ ret' = Return(Pending)
                /\ requests' = [requests EXCEPT ![s].pc = "delay"]
                /\ UNCHANGED <<circuitBreakerState, consecutiveFailures, lastFailureTime,
                               failedInARow>>
           ELSE /\ SetBreaker(recordFailure(breaker, now))
                /\ call' = "makeRequest"
                /\ ret' = Throw(handleAxiosError(response))
                /\ requests' = [requests EXCEPT ![s] = Idle]
                /\ failedInARow' = failedInARow + 1
    /\ UNCHANGED now
    /\ UNCHANGED <<parserVars, databaseVars>>

\* the delay is over: makeRequest(endpoint, {...options, retries: retries + 1});
\* an error of checkCircuitBreaker leaves the outer call as it is
Retry ==
    /\ \E s \in 1..MaxInFlight :
        /\ requests[s].pc = "delay"
        /\ LET c == checkCircuitBreaker(breaker, now)
           IN  /\ SetBreaker(c.breaker)
               /\ call' = "makeRequest(retry)"
               /\ IF c.thrown
                  THEN ret' = Throw(CircuitOpenError)
                       /\ requests' = [requests EXCEPT ![s] = Idle]
                  ELSE /\ ret' = Return(Pending)
                       /\ requests' = [requests EXCEPT ![s] =
                                          [pc |-> "request",
                                           retries |-> requests[s].retries + 1,
                                           probe |-> requests[s].probe
                                                        \/ MovedToHalfOpen(breaker, c)]]
    /\ UNCHANGED <<now, failedInARow>>
    /\ UNCHANGED <<parserVars, databaseVars>>

(***************************************************************************)
(* DatabaseService (src/services/database.ts).  db is the connection held  *)
(* by the service (the prepared statements exist exactly while it does);   *)
(* prTable and commentTable are the rows of the two tables of the database *)
(* file, in rowid order.  No row is ever deleted, so the rowid given by    *)
(* INTEGER PRIMARY KEY is the place of the row in its table.  Columns that *)
(* no operation below reads (file, line, agreement and the timestamps of   *)
(* a comment) are left out of the rows.                                    *)
(***************************************************************************)
DatabaseError == "DatabaseError"

\* variant: no operation looks at the connection
Connected_always(d) == TRUE

\* this.db && this.statements.<name>, the test every operation starts with
Connected(d) == d = "Database"

Obj(fields) == [t |-> "object", v |-> fields]

Arr(items) == [t |-> "array", v |-> items]

PrRow(id, repo, number) ==
    [id |-> id, repo |-> repo, number |-> number, last_synced |-> "now"]

CommentRow(id, data) ==
    [id |-> id, pr_id |-> data.pr_id, author |-> data.author,
     original_comment |-> data.original_comment,
     prompt_for_ai_agents |-> data.prompt_for_ai_agents,
     reply |-> Null, replied |-> FALSE, fix_applied |-> FALSE]

SamePr(prs, repo, number) ==
    {i \in 1..Len(prs) : prs[i].repo = repo /\ prs[i].number = number}

\* variant: the table has no UNIQUE(repo, number)
createPr_noUnique(d, prs, repo, number) ==
    IF ~Connected(d) THEN [prs |-> prs, ret |-> Throw(DatabaseError)]
    ELSE LET row == PrRow(Len(prs) + 1, repo, number)
         IN  [prs |-> Append(prs, row), ret |-> Return(Obj(row))]

\* DatabaseService.createPr: INSERT INTO pr ... RETURNING *
createPr(d, prs, repo, number) ==
    IF ~Connected(d) THEN [prs |-> prs, ret |-> Throw(DatabaseError)]
    ELSE IF SamePr(prs, repo, number) # {}
    THEN [prs |-> prs, ret |-> Throw(DatabaseError)]
    ELSE LET row == PrRow(Len(prs) + 1, repo, number)
         IN  [prs |-> Append(prs, row), ret |-> Return(Obj(row))]

\* DatabaseService.getPr: SELECT * FROM pr WHERE repo = ? AND number = ?
getPr(d, prs, repo, number) ==
    IF ~Connected(d) THEN Throw(DatabaseError)
    ELSE IF SamePr(prs, repo, number) = {} THEN Return(Null)
    ELSE Return(Obj(prs[Min(SamePr(prs, repo, number))]))

\* ORDER BY ... DESC: rows, where keys[i] is the key of rows[i] and no key
\* is above top, highest key first; rows of equal key stay in rowid order
OrderDesc(rows, keys, top) ==
    LET WithKey(k) ==
            LET upToRow[i \in 0..Len(rows)] ==
                    IF i = 0 THEN <<>>
                    ELSE IF keys[i] = k THEN Append(upToRow[i - 1], rows[i])
                    ELSE upToRow[i - 1]
            IN  upToRow[Len(rows)]
        upTo[j \in 0..(top + 1)] ==
            IF j = 0 THEN <<>> ELSE upTo[j - 1] \o WithKey(top - j + 1)
    IN  upTo[top + 1]

\* DatabaseService.listPrs(repo): repo || null, then
\* SELECT * FROM pr WHERE (? IS NULL OR repo = ?) ORDER BY number DESC
listPrs(d, prs, repo) ==
    IF ~Connected(d) THEN Throw(DatabaseError)
    ELSE LET rows == SelectSeq(prs, LAMBDA r : repo = "" \/ r.repo = repo)
         IN  Return(Arr(OrderDesc(rows, [i \in 1..Len(rows) |-> rows[i].number],
                                  Max({0} \cup {prs[i].number : i \in 1..Len(prs)}))))

\* DatabaseService.createComment: INSERT INTO comment ... RETURNING *; pr_id
\* REFERENCES pr(id) and foreign_keys is ON, so an unknown pr_id fails
createComment(d, prs, cs, data) ==
    IF ~Connected(d) THEN [cs |-> cs, ret |-> Throw(DatabaseError)]
    ELSE IF data.pr_id \notin 1..Len(prs)
    THEN [cs |-> cs, ret |-> Throw(DatabaseError)]
    ELSE LET row == CommentRow(Len(cs) + 1, data)
         IN  [cs |-> Append(cs, row), ret |-> Return(Obj(row))]

\* DatabaseService.getComment: SELECT * FROM comment WHERE id = ?
getComment(d, cs, id) ==
    IF ~Connected(d) THEN Throw(DatabaseError)
    ELSE IF id \in 1..Len(cs) THEN Return(Obj(cs[id]))
    ELSE Return(Null)

\* COALESCE(?, column) for a field that the updates may carry
Coalesce(updates, field, old) ==
    IF field \in DOMAIN updates THEN updates[field] ELSE old

\* DatabaseService.updateComment: UPDATE comment SET agreement, reply,
\* replied, fix_applied, reviewed_at, fixed_at WHERE id = ?; the statement
\* has no place for original_comment and prompt_for_ai_agents
updateComment(d, cs, id, updates) ==
    IF ~Connected(d) THEN [cs |-> cs, ret |-> Throw(DatabaseError)]
    ELSE IF id \notin 1..Len(cs) THEN [cs |-> cs, ret |-> Return(Undefined)]
    ELSE [cs |-> [cs EXCEPT ![id] =
                     [@ EXCEPT !.reply = Coalesce(updates, "reply", @),
                               !.replied = Coalesce(updates, "replied", @),
                               !.fix_applied = Coalesce(updates, "fix_applied", @)]],
          ret |-> Return(Undefined)]

\* DatabaseService.getCommentsByPr with the replied filter (undefined: no
\* filter): ... WHERE pr_id = ? AND (? IS NULL OR replied = ?) ... ORDER BY
\* created_at DESC.  created_at has a resolution of one second; the rows are
\* given latest rowid first.
getCommentsByPr(d, cs, prId, filters) ==
    IF ~Connected(d) THEN Throw(DatabaseError)
    ELSE LET rows == SelectSeq(cs, LAMBDA r : r.pr_id = prId
                                              /\ ("replied" \in DOMAIN filters
                                                    => r.replied = filters["replied"]))
         IN  Return(Arr(OrderDesc(rows, [i \in 1..Len(rows) |-> rows[i].id], Len(cs))))

\* DatabaseService.markCommentReplied
markCommentReplied(d, cs, id, reply) ==
    IF ~Connected(d) THEN [cs |-> cs, ret |-> Throw(DatabaseError)]
    ELSE IF id \notin 1..Len(cs) THEN [cs |-> cs, ret |-> Return(Undefined)]
    ELSE [cs |-> [cs EXCEPT ![id].reply = reply, ![id].replied = TRUE],
          ret |-> Return(Undefined)]

\* DatabaseService.markCommentFixed
markCommentFixed(d, cs, id) ==
    IF ~Connected(d) THEN [cs |-> cs, ret |-> Throw(DatabaseError)]
    ELSE IF id \notin 1..Len(cs) THEN [cs |-> cs, ret |-> Return(Undefined)]
    ELSE [cs |-> [cs EXCEPT ![id].fix_applied = TRUE],
          ret |-> Return(Undefined)]

\* GROUP_CONCAT(CASE WHEN replied = 0 THEN id END): the ids of the rows not
\* replied, as decimal text, with a comma between two of them; the text is
\* a sequence of ids and commas
RECURSIVE ConcatIds(_)
ConcatIds(rows) ==
    IF rows = <<>> THEN <<>>
    ELSE LET rest == ConcatIds(Tail(rows))
         IN  IF Head(rows).replied THEN rest
             ELSE IF rest = <<>> THEN <<ToString(Head(rows).id)>>
             ELSE <<ToString(Head(rows).id), ",">> \o rest

\* variant: the rows of every pull request are counted
getPrStats_allPrs(d, cs, prId) ==
    IF ~Connected(d) THEN Throw(DatabaseError)
    ELSE Return(Obj([total |-> Len(cs),
                     replied |-> Len(SelectSeq(cs, LAMBDA r : r.replied)),
                     fixed |-> Len(SelectSeq(cs, LAMBDA r : r.fix_applied)),
                     pending_ids |-> IF ConcatIds(cs) = <<>> THEN Null
                                     ELSE Str(ConcatIds(cs))]))

\* DatabaseService.getPrStats: COUNT(*), SUM(CASE WHEN <column> = 1 THEN 1
\* ELSE 0 END) for replied and fix_applied, and GROUP_CONCAT, which is NULL
\* when it is given no value
getPrStats(d, cs, prId) ==
    IF ~Connected(d) THEN Throw(DatabaseError)
    ELSE LET rows == SelectSeq(cs, LAMBDA r : r.pr_id = prId)
         IN  Return(Obj([total |-> Len(rows),
                         replied |-> Len(SelectSeq(rows, LAMBDA r : r.replied)),
                         fixed |-> Len(SelectSeq(rows, LAMBDA r : r.fix_applied)),
                         pending_ids |-> IF ConcatIds(rows) = <<>> THEN Null
                                         ELSE Str(ConcatIds(rows))]))

\* DatabaseService.transaction(fn) for an fn that calls createPr for each of
\* keys in turn and returns the last record: an error of fn rolls every
\* insert of fn back and is thrown on
RECURSIVE CreatePrs(_, _, _)
CreatePrs(d, prs, keys) ==
    IF Len(keys) = 1 THEN createPr(d, prs, keys[1][1], keys[1][2])
    ELSE LET first == createPr(d, prs, keys[1][1], keys[1][2])
         IN  IF first.ret.thrown # "none" THEN first
             ELSE CreatePrs(d, first.prs, Tail(keys))

transaction(d, prs, keys) ==
    IF ~Connected(d) THEN [prs |-> prs, ret |-> Throw(DatabaseError)]
    ELSE LET done == CreatePrs(d, prs, keys)
         IN  IF done.ret.thrown # "none" THEN [prs |-> prs, ret |-> done.ret]
             ELSE done

(***************************************************************************)
(* GitHubService.syncPrComments (src/services/github.ts) against the       *)
(* DatabaseService above.  "L" stands for the text 'Prompt for AI          *)
(* Agents:' in a body; the "P" of CodeRabbitService holds that text too.   *)
(***************************************************************************)
SyncError == "GitHubError: Failed to sync PR comments"

IncludesLabel(b) == \E i \in 1..Len(b) : b[i] \in {"L", "P"}

\* GitHubService.isCodeRabbitComment reads the body only when the login is
\* not 'coderabbitai' and the type is 'Bot'; includes of a body that is not
\* a string raises a TypeError, and so does a comment that is null
isCodeRabbitCommentThrows(r) ==
    \/ r.t # "object"
    \/ /\ ~(r.user.t = "object" /\ r.user.login = "coderabbitai")
       /\ r.user.t = "object" /\ r.user.type = "Bot"
       /\ ~IsString(r.body)

\* GitHubService.isCodeRabbitComment, when it does not throw
githubIsCodeRabbitComment(r) ==
    /\ r.user.t = "object"
    /\ \/ r.user.login = "coderabbitai"
       \/ r.user.type = "Bot" /\ IncludesLabel(r.body.v)

\* /Prompt for AI Agents:\s*(.+?)(?:\n|$)/ at the label at p: after "L" the
\* capture starts as in legacyPromptMatch; after "P" it starts at the two
\* asterisks that close the label; it runs to the end of the line
LabelCapture(b, p) ==
    IF b[p] = "P"
    THEN <<"*">> \o (IF p < Len(b) /\ b[p + 1] # "N"
                     THEN SubSeq(b, p + 1, LineEnd(b, p + 1)) ELSE <<>>)
    ELSE LET i == Max(PromptStarts(b, p)) IN SubSeq(b, i, LineEnd(b, i))

\* GitHubService.extractPromptMetadata
extractPromptMetadata(b) ==
    LET labels == {p \in 1..Len(b) :
                      b[p] = "P" \/ (b[p] = "L" /\ PromptStarts(b, p) # {})}
    IN  IF labels = {} THEN Null
        ELSE Str(Trim(LabelCapture(b, Min(labels))))

\* what the loop of syncPrComments has done so far
SyncState(cs, new, updated, thrown) ==
    [cs |-> cs, new |-> new, updated |-> updated, thrown |-> thrown]

\* one turn of the loop, for the classified comment r
syncComment(d, prs, prId, st, r) ==
    LET existing == getComment(d, st.cs, r.id)
    IN  IF existing.thrown # "none"
        THEN [st EXCEPT !.thrown = existing.thrown]
        ELSE IF existing.value.t = "null"
        THEN LET made == createComment(d, prs, st.cs,
                            [pr_id |-> prId, author |-> r.user.login,
                             original_comment |-> r.body,
                             prompt_for_ai_agents |-> extractPromptMetadata(r.body.v)])
             IN  IF made.ret.thrown # "none"
                 THEN [st EXCEPT !.thrown = made.ret.thrown]
                 ELSE [st EXCEPT !.cs = made.cs, !.new = @ + 1]
        ELSE IF existing.value.v.original_comment # r.body
        THEN LET done == updateComment(d, st.cs, r.id,
                            [original_comment |-> r.body,
                             prompt_for_ai_agents |-> extractPromptMetadata(r.body.v)])
             IN  [st EXCEPT !.cs = done.cs, !.updated = @ + 1]
        ELSE st

RECURSIVE syncComments(_, _, _, _, _)
syncComments(d, prs, prId, st, rs) ==
    IF rs = <<>> \/ st.thrown # "none" THEN st
    ELSE syncComments(d, prs, prId, syncComment(d, prs, prId, st, Head(rs)), Tail(rs))

\* syncPrComments from the answer of getReviewComments on: the filter, the
\* loop, updatePrLastSynced and the counts; any error is thrown on as
\* GitHubError('Failed to sync PR comments')
syncFetched(d, prs, cs, prId, rs) ==
    IF \E i \in 1..Len(rs) : isCodeRabbitCommentThrows(rs[i])
    THEN [cs |-> cs, ret |-> Throw(SyncError)]
    ELSE LET coderabbitComments == SelectSeq(rs, githubIsCodeRabbitComment)
             st == syncComments(d, prs, prId, SyncState(cs, 0, 0, "none"),
                                coderabbitComments)
         IN  IF st.thrown # "none" \/ ~Connected(d)
             THEN [cs |-> st.cs, ret |-> Throw(SyncError)]
             ELSE [cs |-> st.cs,
                   ret |-> Return(Obj([synced |-> Len(coderabbitComments),
                                       new |-> st.new,
                                       updated |-> st.updated]))]

(***************************************************************************)
(* Inputs.  A run is given one base comment, or one batch of base          *)
(* comments, or one review comment, by the fetch layer.                    *)
(***************************************************************************)
Logins == {"coderabbitai", "coderabbitai[bot]", "user123"}

\* a login that differs from the bot's handle by case only
NearMissLogin == "CodeRabbitAI"

BodyAlphabet == {"A", "F", "N", "x", "s"}

ToolAlphabet == {"T1", "T2", "T3", "x", "N"}

NoAdjacentMarks(b) ==
    \A i \in 1..(Len(b) - 1) : b[i] = b[i + 1] => b[i] \notin {"F", "B"}

TokenSeqs(alphabet, n) ==
    {b \in UNION {[1..k -> alphabet] : k \in 0..n} : NoAdjacentMarks(b)}

\* bodies after the ones of the test suites
PlainBody == <<"x", " ", "x">>

FullBody ==
    <<"Y", "N", "N", "B", "x", "B", "N", "N", "A", "N", "N", "F", "N", "x", "N", "F",
      "N", "N", "T1", "N", "N", "x", "N", "N", "F", "s", "N", "x", "N", "F", "N", "N", "I">>

SuggestionBody == <<"N", " ", "F", "s", "N", " ", "x", "N", " ", "F", "N">>

CommittableBody == <<"C", "N", "N", "F", "x", "N", "x", "N", "F">>

UnclosedBody == <<"x", " ", "A", " ", "F", "N", "x">>

BlankPromptBody == <<"A", "F", "N", "N", "F">>

\* a fenced block, then the AI-prompt marker with no fence after it
FenceBeforeMarkerBody == <<"F", "N", "x", "N", "F", "N", "N", "A", "N", "x">>

\* the marker, a block tagged diff, a line of text, a block tagged suggestion
TaggedPromptBody ==
    <<"A", "N", "N", "F", "d", "N", "x", "N", "F", "N", "y", "N", "F", "s", "N", "x",
      "N", "F">>

\* the marker, a block tagged diff and nothing after it
TaggedOnlyBody == <<"A", "N", "N", "F", "d", "N", "x", "N", "F", "N">>

PromptBodies == {FenceBeforeMarkerBody, TaggedPromptBody, TaggedOnlyBody}

SampleBodies ==
    {<<>>, PlainBody, FullBody, SuggestionBody, CommittableBody, UnclosedBody,
     BlankPromptBody}

NoComment == BaseComment(0, NoAuthor, Undefined, FALSE)

InputBodies ==
    TokenSeqs(BodyAlphabet, MaxBodyLen) \cup TokenSeqs(ToolAlphabet, MaxToolBodyLen)
        \cup SampleBodies \cup PromptBodies

SingleComments ==
    {BaseComment(1, Author(l), Str(b), TRUE) : l \in Logins, b \in InputBodies}
    \cup {BaseComment(1, Author(NearMissLogin), Str(b), TRUE) : b \in SampleBodies}
    \cup {BaseComment(1, Author(l), Null, TRUE) : l \in Logins \cup {NearMissLogin}}
    \cup {BaseComment(1, NoAuthor, Str(b), FALSE) : b \in SampleBodies}

BatchItems ==
    {[author |-> Author("coderabbitai[bot]"), body |-> Str(b), full |-> TRUE] :
        b \in SampleBodies}
    \cup {[author |-> Author(l), body |-> Str(b), full |-> (l # "coderabbitai")] :
             l \in Logins \ {"coderabbitai[bot]"}, b \in {PlainBody, FullBody}}
    \cup {[author |-> Author("coderabbitai[bot]"), body |-> Null, full |-> TRUE],
          [author |-> NoAuthor, body |-> Str(PlainBody), full |-> FALSE]}

Batches ==
    UNION {{[i \in 1..n |-> BaseComment(i, items[i].author, items[i].body, items[i].full)] :
                items \in [1..n -> BatchItems]} : n \in 0..MaxBatch}

NoReview == [t |-> "absent", id |-> 0, user |-> NoUser, body |-> Undefined]

Reviews ==
    {ReviewComment(123, u, body) :
        u \in {User("coderabbitai", "Bot"), User("coderabbitai", "User"),
               User("coderabbitai[bot]", "Bot"), User("user", "User"), NoUser},
        body \in {Str(b) : b \in TokenSeqs({"P", "x", "N", " "}, MaxReviewBodyLen)}
                 \cup {Null, Undefined, Num}}
    \cup {ReviewComment(0, User("coderabbitai", "Bot"), Str(<<"P", " ", "x">>))}
    \cup {NullReview}

\* review comments after the ones of the service's test suite
MockCodeRabbitBody == <<"x", "N", "N", "P", " ", "x", " ", "y">>

ReviewItems ==
    {ReviewComment(123, User("coderabbitai", "Bot"), Str(MockCodeRabbitBody)),
     ReviewComment(456, User("coderabbitai", "Bot"), Str(MockCodeRabbitBody)),
     ReviewComment(789, User("coderabbitai", "Bot"), Str(<<"x", " ", "P">>)),
     ReviewComment(7, User("user", "User"), Str(MockCodeRabbitBody)),
     ReviewComment(5, User("coderabbitai", "Bot"), Null),
     NullReview}

\* no list of review comments was given
NoReviews == <<NoReview>>

ReviewBatches == UNION {[1..n -> ReviewItems] : n \in 0..MaxReviewBatch}

\* pull requests that the callers of DatabaseService name
PrKeys == {<<"owner/repo", 1>>, <<"other/repo", 1>>}

\* bodies after the ones of the sync tests
OldSyncBody == <<"x", "N", "L", " ", "x">>

NewSyncBody == <<"y", "N", "L", " ", "y">>

\* ids of fetched comments: two that meet rowids of the comment table, and
\* one that does not
SyncIds == {1, 2, 7}

SyncItems ==
    {ReviewComment(id, u, Str(b)) :
        id \in SyncIds,
        u \in {User("coderabbitai", "Bot")},
        b \in {OldSyncBody, NewSyncBody}}
    \cup {ReviewComment(id, User("anotherbot", "Bot"), Str(OldSyncBody)) : id \in SyncIds}
    \cup {ReviewComment(id, User("user", "User"), Str(PlainBody)) : id \in SyncIds}

\* an answer of the GitHub API: no two comments share an id
FetchedLists ==
    {rs \in UNION {[1..n -> SyncItems] : n \in 0..MaxFetched} :
        \A i, j \in 1..Len(rs) : i # j => rs[i].id # rs[j].id}

\* what createComment is given by the other callers
CommentInserts ==
    {[pr_id |-> p, author |-> Str(<<"x">>), original_comment |-> Str(PlainBody),
      prompt_for_ai_agents |-> Null] : p \in 1..MaxPrRows}

\* what updateComment is given: the fields syncPrComments passes, or a flag
CommentUpdates ==
    {[original_comment |-> Str(NewSyncBody), prompt_for_ai_agents |-> Str(<<"y">>)],
     [fix_applied |-> TRUE]}

ReplyText == Str(<<"x">>)

NotSyncing == [pc |-> "idle", pr |-> 0]

DatabaseServiceInit ==
    /\ db = "null"
    /\ prTable = <<>>
    /\ commentTable = <<>>
    /\ arg = <<>>
    /\ sync = NotSyncing
    /\ fetched = <<>>

Init ==
    /\ \/ comment \in SingleComments /\ comments = <<>> /\ review = NoReview
          /\ reviews = NoReviews
       \/ comment = NoComment /\ comments \in Batches /\ review = NoReview
          /\ reviews = NoReviews
       \/ comment = NoComment /\ comments = <<>> /\ review \in Reviews
          /\ reviews = NoReviews
       \/ comment = NoComment /\ comments = <<>> /\ review = NoReview
          /\ reviews \in ReviewBatches
    /\ parsed = <<>>
    /\ call = "none"
    /\ ret = Return(Undefined)
    /\ botAnalyses = {}
    /\ storeCalls = <<>>
    /\ GitHubServiceInit
    /\ DatabaseServiceInit

GivenComment == comment # NoComment

GivenBatch == comment = NoComment /\ review = NoReview /\ reviews = NoReviews

GivenReviews == reviews # NoReviews

GivenReview == review # NoReview

(***************************************************************************)
(* Operations.  call names the operation that ran last and ret is how it   *)
(* completed.                                                              *)
(***************************************************************************)
IsCodeRabbitComment ==
    /\ GivenComment
    /\ call' = "isCodeRabbitComment"
    /\ ret' = isCodeRabbitComment(comment)
    /\ UNCHANGED <<githubVars, databaseVars>>
    /\ UNCHANGED <<comment, comments, review, reviews, parsed, botAnalyses, storeCalls>>

ParseComment ==
    /\ GivenComment
    /\ call' = "parseComment"
    /\ ret' = parseComment(comment)
    /\ UNCHANGED <<githubVars, databaseVars>>
    /\ UNCHANGED <<comment, comments, review, reviews, parsed, botAnalyses, storeCalls>>

ParseCodeRabbitComment ==
    /\ GivenComment
    /\ call' = "parseCodeRabbitComment"
    /\ ret' = parseCodeRabbitComment(comment)
    /\ UNCHANGED <<githubVars, databaseVars>>
    /\ UNCHANGED <<comment, comments, review, reviews, parsed, botAnalyses, storeCalls>>

AnalyzeEnhancedComment ==
    /\ GivenComment
    /\ \E storeOk \in BOOLEAN :
        /\ call' = "analyzeEnhancedComment"
        /\ ret' = analyzeEnhancedComment(comment, storeOk)
        /\ botAnalyses' =
              IF storeOk /\ parseCodeRabbitComment(comment).thrown = "none"
              THEN botAnalyses \cup {BotAnalysis(parseCodeRabbitComment(comment).value)}
              ELSE botAnalyses
    /\ UNCHANGED <<githubVars, databaseVars>>
    /\ UNCHANGED <<comment, comments, review, reviews, parsed, storeCalls>>

\* WorkflowService.processWorkflow: parseComments(baseComments)
ParseComments ==
    /\ GivenBatch
    /\ call' = "parseComments"
    /\ ret' = parseComments(comments)
    /\ parsed' = IF parseComments(comments).thrown = "none"
                 THEN parseComments(comments).value ELSE parsed
    /\ UNCHANGED <<githubVars, databaseVars>>
    /\ UNCHANGED <<comment, comments, review, reviews, botAnalyses, storeCalls>>

\* filterActionableComments(parsedComments), or of the raw list
FilterActionableComments ==
    /\ GivenBatch
    /\ \E src \in {"parsed", "raw"} :
        /\ src = "parsed" => call \in {"parseComments", "filterActionableComments(parsed)"}
                             /\ Len(parsed) = Len(comments)
        /\ call' = "filterActionableComments(" \o src \o ")"
        /\ ret' = Return(filterActionableComments(IF src = "parsed" THEN parsed ELSE comments))
    /\ UNCHANGED <<githubVars, databaseVars>>
    /\ UNCHANGED <<comment, comments, review, reviews, parsed, botAnalyses, storeCalls>>

\* parseCodeRabbitComment of a comment that parseComments already parsed
ReparseParsedComment ==
    /\ GivenBatch
    /\ Len(parsed) = Len(comments)
    /\ \E i \in 1..Len(parsed) :
        /\ HasBotTag(parsed[i])
        /\ call' = "parseCodeRabbitComment(parsed)"
        /\ ret' = parseCodeRabbitComment(parsed[i])
    /\ UNCHANGED <<githubVars, databaseVars>>
    /\ UNCHANGED <<comment, comments, review, reviews, parsed, botAnalyses, storeCalls>>

ParseCodeRabbitComments ==
    /\ GivenBatch
    /\ call' = "parseCodeRabbitComments"
    /\ ret' = parseCodeRabbitComments(comments)
    /\ UNCHANGED <<githubVars, databaseVars>>
    /\ UNCHANGED <<comment, comments, review, reviews, parsed, botAnalyses, storeCalls>>

SvcIsCodeRabbitComment ==
    /\ GivenReview
    /\ call' = "CodeRabbitService.isCodeRabbitComment"
    /\ ret' = Return(svcIsCodeRabbitComment(review))
    /\ UNCHANGED <<githubVars, databaseVars>>
    /\ UNCHANGED <<comment, comments, review, reviews, parsed, botAnalyses, storeCalls>>

\* the callers pass comment.body
ExtractAIPrompt ==
    /\ GivenReview
    /\ review.t = "object"
    /\ call' = "extractAIPrompt"
    /\ ret' = extractAIPrompt(review.body)
    /\ UNCHANGED <<githubVars, databaseVars>>
    /\ UNCHANGED <<comment, comments, review, reviews, parsed, botAnalyses, storeCalls>>

AnalyzeComment ==
    /\ GivenReview
    /\ \E storeOk \in BOOLEAN :
        /\ Len(storeCalls) + Len(StoreCallsOf(review, storeOk)) <= MaxStoreCalls
        /\ call' = "analyzeComment"
        /\ ret' = analyzeComment(review, storeOk)
        /\ storeCalls' = storeCalls \o StoreCallsOf(review, storeOk)
    /\ UNCHANGED <<githubVars, databaseVars>>
    /\ UNCHANGED <<comment, comments, review, reviews, parsed, botAnalyses>>

ProcessComments ==
    /\ GivenReviews
    /\ \E oks \in [1..Len(reviews) -> BOOLEAN] :
        /\ Len(storeCalls) + Len(ProcessStoreCalls(reviews, oks)) <= MaxStoreCalls
        /\ call' = "processComments"
        /\ ret' = Return(processComments(reviews, oks))
        /\ storeCalls' = storeCalls \o ProcessStoreCalls(reviews, oks)
    /\ UNCHANGED <<githubVars, databaseVars>>
    /\ UNCHANGED <<comment, comments, review, reviews, parsed, botAnalyses>>

Next ==
    \/ IsCodeRabbitComment
    \/ ParseComment
    \/ ParseCodeRabbitComment
    \/ AnalyzeEnhancedComment
    \/ ParseComments
    \/ FilterActionableComments
    \/ ReparseParsedComment
    \/ ParseCodeRabbitComments
    \/ SvcIsCodeRabbitComment
    \/ ExtractAIPrompt
    \/ AnalyzeComment
    \/ ProcessComments

Spec == Init /\ [][Next]_vars

\* GitHubService on its own: no comment is being parsed
InitGitHub ==
    /\ comment = NoComment /\ comments = <<>> /\ review = NoReview
    /\ reviews = NoReviews /\ parsed = <<>> /\ botAnalyses = {} /\ storeCalls = <<>>
    /\ call = "none"
    /\ ret = Return(Undefined)
    /\ GitHubServiceInit
    /\ DatabaseServiceInit

NextGitHub ==
    \/ Tick
    \/ MakeRequest
    \/ Respond
    \/ Retry

SpecGitHub == InitGitHub /\ [][NextGitHub]_vars

(***************************************************************************)
(* Operations of DatabaseService, called in any order.                     *)
(***************************************************************************)
NoSync == UNCHANGED <<sync, fetched>>

OtherServices == UNCHANGED <<parserVars, githubVars>>

\* connect(): the database file is opened (or not: the error is thrown on
\* as DatabaseError and the service is left without a connection)
Connect ==
    /\ \E ok \in BOOLEAN :
        /\ db' = IF ok THEN "Database" ELSE "null"
        /\ ret' = IF ok THEN Return(Undefined) ELSE Throw(DatabaseError)
    /\ call' = "connect"
    /\ arg' = <<>>
    /\ UNCHANGED <<prTable, commentTable>>
    /\ NoSync /\ OtherServices

Close ==
    /\ db' = "null"
    /\ call' = "close"
    /\ arg' = <<>>
    /\ ret' = Return(Undefined)
    /\ UNCHANGED <<prTable, commentTable>>
    /\ NoSync /\ OtherServices

CreatePr ==
    /\ \E key \in PrKeys :
        LET r == createPr(db, prTable, key[1], key[2])
        IN  /\ Len(r.prs) <= MaxPrRows
            /\ prTable' = r.prs
            /\ ret' = r.ret
            /\ arg' = key
    /\ call' = "createPr"
    /\ UNCHANGED <<db, commentTable>>
    /\ NoSync /\ OtherServices

GetPr ==
    /\ \E key \in PrKeys :
        /\ ret' = getPr(db, prTable, key[1], key[2])
        /\ arg' = key
    /\ call' = "getPr"
    /\ UNCHANGED <<db, prTable, commentTable>>
    /\ NoSync /\ OtherServices

ListPrs ==
    /\ \E repo \in {"", "owner/repo"} :
        /\ ret' = listPrs(db, prTable, repo)
        /\ arg' = <<repo>>
    /\ call' = "listPrs"
    /\ UNCHANGED <<db, prTable, commentTable>>
    /\ NoSync /\ OtherServices

CreateComment ==
    /\ \E data \in CommentInserts :
        LET r == createComment(db, prTable, commentTable, data)
        IN  /\ Len(r.cs) <= MaxCommentRows
            /\ commentTable' = r.cs
            /\ ret' = r.ret
            /\ arg' = <<data>>
    /\ call' = "createComment"
    /\ UNCHANGED <<db, prTable>>
    /\ NoSync /\ OtherServices

GetComment ==
    /\ \E id \in 1..MaxCommentRows :
        /\ ret' = getComment(db, commentTable, id)
        /\ arg' = <<id>>
    /\ call' = "getComment"
    /\ UNCHANGED <<db, prTable, commentTable>>
    /\ NoSync /\ OtherServices

UpdateComment ==
    /\ \E id \in 1..MaxCommentRows, updates \in CommentUpdates :
        LET r == updateComment(db, commentTable, id, updates)
        IN  /\ commentTable' = r.cs
            /\ ret' = r.ret
            /\ arg' = <<id, updates>>
    /\ call' = "updateComment"
    /\ UNCHANGED <<db, prTable>>
    /\ NoSync /\ OtherServices

GetCommentsByPr ==
    /\ \E prId \in 1..MaxPrRows, filters \in {<<>>, [replied |-> FALSE]} :
        /\ ret' = getCommentsByPr(db, commentTable, prId, filters)
        /\ arg' = <<prId, filters>>
    /\ call' = "getCommentsByPr"
    /\ UNCHANGED <<db, prTable, commentTable>>
    /\ NoSync /\ OtherServices

MarkCommentReplied ==
    /\ \E id \in 1..MaxCommentRows :
        LET r == markCommentReplied(db, commentTable, id, ReplyText)
        IN  /\ commentTable' = r.cs
            /\ ret' = r.ret
            /\ arg' = <<id>>
    /\ call' = "markCommentReplied"
    /\ UNCHANGED <<db, prTable>>
    /\ NoSync /\ OtherServices

MarkCommentFixed ==
    /\ \E id \in 1..MaxCommentRows :
        LET r == markCommentFixed(db, commentTable, id)
        IN  /\ commentTable' = r.cs
            /\ ret' = r.ret
            /\ arg' = <<id>>
    /\ call' = "markCommentFixed"
    /\ UNCHANGED <<db, prTable>>
    /\ NoSync /\ OtherServices

GetPrStats ==
    /\ \E prId \in 1..MaxPrRows :
        /\ ret' = getPrStats(db, commentTable, prId)
        /\ arg' = <<prId>>
    /\ call' = "getPrStats"
    /\ UNCHANGED <<db, prTable, commentTable>>
    /\ NoSync /\ OtherServices

Transaction ==
    /\ \E k1, k2 \in PrKeys :
        LET r == transaction(db, prTable, <<k1, k2>>)
        IN  /\ Len(r.prs) <= MaxPrRows
            /\ prTable' = r.prs
            /\ ret' = r.ret
            /\ arg' = <<k1, k2>>
    /\ call' = "transaction"
    /\ UNCHANGED <<db, commentTable>>
    /\ NoSync /\ OtherServices

InitDatabase ==
    /\ comment = NoComment /\ comments = <<>> /\ review = NoReview
    /\ reviews = NoReviews /\ parsed = <<>> /\ botAnalyses = {} /\ storeCalls = <<>>
    /\ call = "none"
    /\ ret = Return(Undefined)
    /\ GitHubServiceInit
    /\ DatabaseServiceInit

NextDatabase ==
    \/ Connect
    \/ Close
    \/ CreatePr
    \/ GetPr
    \/ ListPrs
    \/ CreateComment
    \/ GetComment
    \/ UpdateComment
    \/ GetCommentsByPr
    \/ MarkCommentReplied
    \/ MarkCommentFixed
    \/ GetPrStats
    \/ Transaction

SpecDatabase == InitDatabase /\ [][NextDatabase]_vars

(***************************************************************************)
(* syncPrComments, one call at a time, on a connected or unconnected       *)
(* DatabaseService.                                                        *)
(***************************************************************************)
\* syncPrComments up to its await: getPr, createPr when there is none, and
\* the request for the review comments
SyncStart ==
    /\ sync.pc = "idle"
    /\ \E key \in PrKeys :
        LET got == getPr(db, prTable, key[1], key[2])
            made == createPr(db, prTable, key[1], key[2])
        IN  /\ arg' = key
            /\ IF got.thrown # "none"
               THEN /\ ret' = Throw(SyncError)
                    /\ UNCHANGED <<prTable, sync>>
               ELSE IF got.value.t # "null"
               THEN /\ ret' = Return(Pending)
                    /\ sync' = [pc |-> "fetch", pr |-> got.value.v.id]
                    /\ UNCHANGED prTable
               ELSE /\ ret' = Return(Pending)
                    /\ prTable' = made.prs
                    /\ sync' = [pc |-> "fetch", pr |-> made.ret.value.v.id]
    /\ call' = "syncPrComments"
    /\ fetched' = <<>>
    /\ UNCHANGED <<db, commentTable>>
    /\ OtherServices

\* getReviewComments answers and syncPrComments runs to its end
SyncFinish ==
    /\ sync.pc = "fetch"
    /\ \E rs \in FetchedLists :
        /\ LET r == syncFetched(db, prTable, commentTable, sync.pr, rs)
           IN  /\ Len(r.cs) <= MaxCommentRows
               /\ commentTable' = r.cs
               /\ ret' = r.ret
               /\ fetched' = rs
    /\ call' = "syncPrComments"
    /\ sync' = NotSyncing
    /\ UNCHANGED <<db, prTable, arg>>
    /\ OtherServices

\* getReviewComments fails
SyncFails ==
    /\ sync.pc = "fetch"
    /\ call' = "syncPrComments"
    /\ ret' = Throw(SyncError)
    /\ sync' = NotSyncing
    /\ fetched' = <<>>
    /\ UNCHANGED <<db, prTable, commentTable, arg>>
    /\ OtherServices

NextSync ==
    \/ Connect
    \/ SyncStart
    \/ SyncFinish
    \/ SyncFails

SpecSync == InitDatabase /\ [][NextSync]_vars


(***************************************************************************)
(* Properties.                                                             *)
(***************************************************************************)
HasAuthor(c) == c["author"].t = "object"

Recognized(c) == HasAuthor(c) /\ c["author"].login \in {"coderabbitai", "coderabbitai[bot]"}

WellFormed(c) == HasAuthor(c) /\ IsString(c["body"])

DerivedNames ==
    {"bot", "type", "heading", "summary", "diff", "suggestedCode",
     "committableSuggestion", "aiPrompt", "tools", "internalId"}

\* C1: parseComment returns a comment whose author login is neither
\* 'coderabbitai' nor 'coderabbitai[bot]' unchanged: the same fields with the
\* same values, and no derived field.
C1_PassThrough ==
    (call = "parseComment" /\ HasAuthor(comment) /\ ~Recognized(comment))
        => /\ ret.thrown = "none"
           /\ DOMAIN ret.value = DOMAIN comment
           /\ \A k \in DOMAIN comment : ret.value[k] = comment[k]

C1_Witness ==
    /\ call = "parseComment"
    /\ comment["author"].login = "CodeRabbitAI"
    /\ comment["body"] = Str(FullBody)
    /\ ret = Return(comment)

\* C2: a comment goes to the CodeRabbit parser exactly when its author login
\* is 'coderabbitai' or 'coderabbitai[bot]'; the body and the other fields do
\* not take part, and isCodeRabbitComment answers the same question.
C2_RoutingByLogin ==
    /\ (call = "parseComment" /\ HasAuthor(comment))
          => IF Recognized(comment)
             THEN ret.thrown # "none" \/ "bot" \in DOMAIN ret.value
             ELSE ret.thrown = "none" /\ "bot" \notin DOMAIN ret.value
    /\ (call = "isCodeRabbitComment" /\ HasAuthor(comment))
          => ret = Return(Recognized(comment))

C2_Witness ==
    /\ call = "parseComment"
    /\ comment["author"].login = "coderabbitai[bot]"
    /\ comment["body"] = Str(PlainBody)
    /\ ret.thrown = "none"
    /\ "bot" \in DOMAIN ret.value

\* C3: for a recognized author the parsed comment is the raw comment plus
\* derived fields: every field of the raw comment keeps its value, only the
\* derived fields are added, the bot tag is 'coderabbitai[bot]' for either
\* spelling of the login, and tools is present, empty without a tool marker.
C3_ParsedExtendsRaw ==
    (call = "parseComment" /\ Recognized(comment) /\ ret.thrown = "none")
        => /\ \A k \in DOMAIN comment : ret.value[k] = comment[k]
           /\ DOMAIN ret.value = DOMAIN comment \cup DerivedNames
           /\ ret.value["bot"] = "coderabbitai[bot]"
           /\ Len(ret.value["tools"]) =
                 Cardinality({i \in 1..Len(comment["body"].v) :
                                 comment["body"].v[i] \in ToolTokens})

C3_Witness ==
    /\ call = "parseComment"
    /\ comment["author"].login = "coderabbitai"
    /\ comment["body"] = Str(PlainBody)
    /\ ret.thrown = "none"
    /\ ret.value["bot"] = "coderabbitai[bot]"
    /\ ret.value["tools"] = <<>>
    /\ ret.value["body"] = Str(PlainBody)

\* C4: parseComments of a list of well-formed comments returns a list of the
\* same length whose i-th element is parseComment of the i-th input.
C4_BatchElementwise ==
    (call = "parseComments" /\ \A i \in 1..Len(comments) : WellFormed(comments[i]))
        => /\ ret.thrown = "none"
           /\ Len(ret.value) = Len(comments)
           /\ \A i \in 1..Len(comments) :
                 /\ ret.value[i] = parseComment(comments[i]).value
                 /\ ret.value[i]["commentId"] = i
                 /\ ("bot" \in DOMAIN ret.value[i]) <=> Recognized(comments[i])

C4_Witness ==
    /\ call = "parseComments"
    /\ Len(comments) = 2
    /\ ~Recognized(comments[1])
    /\ Recognized(comments[2])
    /\ ret.thrown = "none"
    /\ Len(ret.value) = 2
    /\ ret.value[1] = comments[1]
    /\ "bot" \in DOMAIN ret.value[2]

\* C5: filterActionableComments returns the subsequence of its input made of
\* the parsed comments with at least one of aiPrompt, suggestedCode and
\* committableSuggestion present and non-empty, in input order.
FilterInput ==
    IF call = "filterActionableComments(parsed)" THEN parsed ELSE comments

ActionableIndexes(cs) ==
    {i \in 1..Len(cs) :
        /\ "bot" \in DOMAIN cs[i]
        /\ \E f \in {"aiPrompt", "suggestedCode", "committableSuggestion"} :
              cs[i][f].t = "string" /\ Len(cs[i][f].v) > 0}

\* the j-th smallest element of a set of indexes
Nth(S, j) == CHOOSE i \in S : Cardinality({m \in S : m <= i}) = j

C5_FilterIsSubsequence ==
    (call \in {"filterActionableComments(parsed)", "filterActionableComments(raw)"})
        => /\ ret.thrown = "none"
           /\ Len(ret.value) = Cardinality(ActionableIndexes(FilterInput))
           /\ \A j \in 1..Len(ret.value) :
                 ret.value[j] = FilterInput[Nth(ActionableIndexes(FilterInput), j)]

C5_Witness ==
    /\ call = "filterActionableComments(parsed)"
    /\ Len(parsed) = 2
    /\ parsed[1]["body"] = Str(PlainBody) /\ "bot" \in DOMAIN parsed[1]
    /\ parsed[2]["body"] = Str(SuggestionBody) /\ "bot" \in DOMAIN parsed[2]
    /\ parsed[2]["aiPrompt"] = Undefined
    /\ ret = Return(<<parsed[2]>>)

\* C6: parseComment returns a value for every comment of a recognized
\* author, also when the body is null.
C6_ParseNeverThrows ==
    (call = "parseComment" /\ Recognized(comment)) => ret.thrown = "none"

\* C7: in a batch of comments that all have an author, an item whose parsing
\* faults does not abort the batch: the call completes and every other item
\* is parsed and returned.
C7_BatchIsolatesFaults ==
    (call = "parseComments"
        /\ (\A k \in 1..Len(comments) : HasAuthor(comments[k]))
        /\ \E i, j \in 1..Len(comments) :
              parseComment(comments[i]).thrown # "none"
              /\ parseComment(comments[j]).thrown = "none")
        => /\ ret.thrown = "none"
           /\ \A i \in 1..Len(comments) :
                 parseComment(comments[i]).thrown = "none"
                    => \E j \in 1..Len(ret.value) :
                          ret.value[j] = parseComment(comments[i]).value

\* C8: classification never throws: a comment without author (or user)
\* classifies as false.
C8_ClassifierNeverThrows ==
    /\ (call = "isCodeRabbitComment" /\ ~HasAuthor(comment)) => ret = Return(FALSE)
    /\ (call = "CodeRabbitService.isCodeRabbitComment" /\ review.user.t # "object")
          => ret = Return(FALSE)

\* C9: for a body that is a string, the empty string included, no extractor
\* throws; without a match the result is 'not found'.
C9_ExtractorsNeverThrow ==
    /\ (call = "extractAIPrompt" /\ IsString(review.body))
          => /\ ret.thrown = "none"
             /\ review.body.v = <<>> => ret.value = [found |-> FALSE, prompt |-> Null]
    /\ (call = "parseCodeRabbitComment" /\ IsString(comment["body"]))
          => /\ ret.thrown = "none"
             /\ comment["body"].v = <<>>
                   => /\ ret.value["aiPrompt"] = Undefined
                      /\ ret.value["tools"] = <<>>

\* C10: for a recognized author whose body has the AI-prompt marker followed
\* by exactly one fence (a block opened and never closed), parseComment
\* returns a comment tagged 'coderabbitai[bot]' without aiPrompt.
UnclosedAfterMarker(b) ==
    \E a \in 1..Len(b) :
        /\ b[a] = "A"
        /\ \A i \in 1..(a - 1) : b[i] # "A"
        /\ \E j \in (a + 1)..(Len(b) - 1) :
              /\ b[j] = "F" /\ b[j + 1] = "N"
              /\ \A k \in (a + 1)..Len(b) : b[k] = "F" => k = j

C10_UnclosedFence ==
    (call = "parseComment" /\ Recognized(comment) /\ IsString(comment["body"])
        /\ UnclosedAfterMarker(comment["body"].v))
        => /\ ret.thrown = "none"
           /\ ret.value["bot"] = "coderabbitai[bot]"
           /\ ret.value["aiPrompt"] = Undefined

C10_Witness ==
    /\ call = "parseComment"
    /\ comment["author"].login = "coderabbitai[bot]"
    /\ comment["body"] = Str(UnclosedBody)
    /\ ret.thrown = "none"
    /\ ret.value["bot"] = "coderabbitai[bot]"
    /\ ret.value["aiPrompt"] = Undefined

\* C11: aiPrompt is never taken from a fenced block that the AI-prompt marker
\* does not precede: when the body has no marker, or every fence of the body
\* stands before the marker, the parsed comment has no aiPrompt.
NoFenceAfterMarker(b) ==
    \A a, k \in 1..Len(b) : (b[a] = "A" /\ b[k] = "F") => k < a

C11_PromptAnchoredOnMarker ==
    (call \in {"parseComment", "parseCodeRabbitComment"}
        /\ Recognized(comment) /\ IsString(comment["body"])
        /\ NoFenceAfterMarker(comment["body"].v))
        => /\ ret.thrown = "none"
           /\ ret.value["aiPrompt"] = Undefined

C11_Witness ==
    /\ call = "parseComment"
    /\ Recognized(comment)
    /\ comment["body"] = Str(FenceBeforeMarkerBody)
    /\ ret.thrown = "none"
    /\ ret.value["aiPrompt"] = Undefined

\* C12: when the AI-prompt marker is present, aiPrompt is the trimmed content
\* of the first fenced block that begins after the first marker, whether or
\* not the opening fence of that block carries a tag, and whatever follows
\* the block.  The block runs from the first fence after the marker to the
\* next fence; its content starts after the line of the opening fence.
FirstMarker(b) == Min({a \in 1..Len(b) : b[a] = "A"})

BlockOpen(b) == Min(Fences(b, FirstMarker(b) + 1))

BlockClose(b) == Min(Fences(b, BlockOpen(b) + 1))

BlockContent(b) ==
    SubSeq(b, Min({n \in BlockOpen(b)..Len(b) : b[n] = "N"}) + 1, BlockClose(b) - 1)

HasBlockAfterMarker(b) ==
    /\ \E a \in 1..Len(b) : b[a] = "A"
    /\ Fences(b, FirstMarker(b) + 1) # {}
    /\ Fences(b, BlockOpen(b) + 1) # {}
    /\ \E n \in BlockOpen(b)..BlockClose(b) : b[n] = "N"
    /\ Trim(BlockContent(b)) # <<>>

C12_FirstBlockAfterMarker ==
    (call \in {"parseComment", "parseCodeRabbitComment"}
        /\ Recognized(comment) /\ IsString(comment["body"])
        /\ HasBlockAfterMarker(comment["body"].v))
        => /\ ret.thrown = "none"
           /\ ret.value["aiPrompt"] = Str(Trim(BlockContent(comment["body"].v)))

\* C13: tools has one entry for every tool marker of the body, in document
\* order, each entry the trimmed text of its marker; a tool named twice is
\* listed twice, so the length is the number of markers.
ToolPositions(b) == {i \in 1..Len(b) : b[i] \in {"T1", "T2", "T3"}}

ToolName(tok) ==
    CASE tok = "T1" -> <<"ESLint">>
      [] tok = "T2" -> <<"TypeScript">>
      [] tok = "T3" -> <<>>

C13_ToolsInDocumentOrder ==
    (call \in {"parseComment", "parseCodeRabbitComment"}
        /\ Recognized(comment) /\ IsString(comment["body"]))
        => /\ ret.thrown = "none"
           /\ Len(ret.value["tools"]) = Cardinality(ToolPositions(comment["body"].v))
           /\ \A j \in 1..Len(ret.value["tools"]) :
                 ret.value["tools"][j] =
                    ToolName(comment["body"].v[Nth(ToolPositions(comment["body"].v), j)])

C13_Witness ==
    /\ call = "parseComment"
    /\ Recognized(comment)
    /\ comment["body"] = Str(<<"T2", "T1", "T2">>)
    /\ ret.thrown = "none"
    /\ ret.value["tools"] = << <<"TypeScript">>, <<"ESLint">>, <<"TypeScript">> >>

\* C14: parsing keeps no state: a comment that was parsed in a batch, with
\* other comments parsed before and after it, parses again to the value of
\* its first parse, and that value is still the parse of its raw comment.
C14_ReparseEqualsFirstParse ==
    (call = "parseCodeRabbitComment(parsed)")
        => /\ ret.thrown = "none"
           /\ ret.value["commentId"] \in 1..Len(parsed)
           /\ ret.value = parsed[ret.value["commentId"]]
           /\ ret.value = parseComment(comments[ret.value["commentId"]]).value

C14_Witness ==
    /\ call = "parseCodeRabbitComment(parsed)"
    /\ Len(comments) = 2
    /\ comments[1]["body"] = Str(FullBody) /\ Recognized(comments[1])
    /\ comments[2]["body"] = Str(FullBody) /\ Recognized(comments[2])
    /\ ret.thrown = "none"
    /\ ret.value = parsed[2]
    /\ ret.value["tools"] = << <<"ESLint">> >>

\* C15: for a batch of well-formed comments, CodeRabbitService's
\* parseCodeRabbitComments returns one parsed comment for each comment of the
\* recognized bot and none for any other author, in input order, so the
\* length of the result is the number of comments of the bot.
RecognizedIndexes(cs) == {i \in 1..Len(cs) : Recognized(cs[i])}

C15_OneParsedPerBotComment ==
    (call = "parseCodeRabbitComments"
        /\ \A i \in 1..Len(comments) : WellFormed(comments[i]))
        => /\ ret.thrown = "none"
           /\ Len(ret.value) = Cardinality(RecognizedIndexes(comments))
           /\ \A j \in 1..Len(ret.value) :
                 /\ ret.value[j]["commentId"] = Nth(RecognizedIndexes(comments), j)
                 /\ ret.value[j]["bot"] = "coderabbitai[bot]"
                 /\ \A k \in DOMAIN comments[ret.value[j]["commentId"]] :
                       ret.value[j][k] = comments[ret.value[j]["commentId"]][k]

C15_Witness ==
    /\ call = "parseCodeRabbitComments"
    /\ Len(comments) = 2
    /\ comments[1]["author"].login = "user123"
    /\ comments[2]["author"].login = "coderabbitai[bot]"
    /\ comments[2]["body"] = Str(PlainBody)
    /\ ret.thrown = "none"
    /\ Len(ret.value) = 1
    /\ ret.value[1]["commentId"] = 2

\* C16: processComments never throws, and its result holds one analysis,
\* in input order, for each comment of the list that is well-formed and
\* classified as CodeRabbit and whose analysis was stored; a null or
\* malformed comment, or one whose storage call fails, takes nothing away
\* from the others.
WellFormedCodeRabbit(r) ==
    /\ r.t = "object" /\ r.id # 0 /\ r.user.t = "object"
    /\ r.body.t = "string" /\ r.body.v # <<>>
    /\ r.user.login = "coderabbitai" /\ r.user.type = "Bot"
    /\ \E i \in 1..Len(r.body.v) : r.body.v[i] = "P"

CodeRabbitIndexes(rs) == {i \in 1..Len(rs) : WellFormedCodeRabbit(rs[i])}

\* the storage calls of the operation that ran last on the list
LastStoreCalls ==
    SubSeq(storeCalls, Len(storeCalls) - Cardinality(CodeRabbitIndexes(reviews)) + 1,
           Len(storeCalls))

StoredIndexes == {j \in 1..Len(LastStoreCalls) : LastStoreCalls[j].ok}

C17_StoresIffClassified ==
    [][(call' = "analyzeComment" /\ review.t = "object" /\ review.id # 0
            /\ Truthy(review.body))
        => IF WellFormedCodeRabbit(review)
           THEN \E ok \in BOOLEAN :
                   /\ storeCalls' =
                         Append(storeCalls,
                                [analysis |->
                                    [commentId |-> review.id,
                                     aiPrompt |-> extractAIPrompt(review.body).value.prompt,
                                     extractedAt |-> "now"],
                                 ok |-> ok])
                   /\ ok => ret' = Return(storeCalls'[Len(storeCalls')].analysis)
                   /\ ~ok => ret'.thrown # "none"
           ELSE ret' = Return(Null) /\ storeCalls' = storeCalls]_vars

C17_Witness ==
    /\ call = "analyzeComment"
    /\ review.id = 123
    /\ review.body = Str(<<"P", " ", "x">>)
    /\ Len(storeCalls) = 1
    /\ storeCalls[1].ok
    /\ storeCalls[1].analysis.commentId = 123
    /\ storeCalls[1].analysis.aiPrompt = Str(<<"x">>)
    /\ ret = Return(storeCalls[1].analysis)

\* C18: analyzeComment throws a CommentParsingError for a null comment and
\* for a comment without id or body, and a CodeRabbitError exactly when the
\* storage call fails; extractAIPrompt throws a CommentParsingError for a
\* body that is null or not a string; nothing else is thrown by either.
C18_ErrorKinds ==
    /\ (call = "analyzeComment")
          => /\ ret.thrown \in {"none", "CommentParsingError", "CodeRabbitError"}
             /\ (review.t # "object" \/ review.id = 0 \/ review.body.t \in {"null", "undefined"}
                    \/ review.body = Str(<<>>))
                   => ret.thrown = "CommentParsingError"
             /\ IF WellFormedCodeRabbit(review)
                THEN /\ storeCalls # <<>>
                     /\ (ret.thrown = "CodeRabbitError") <=> ~storeCalls[Len(storeCalls)].ok
                ELSE ret.thrown # "CodeRabbitError"
    /\ (call = "extractAIPrompt")
          => /\ ret.thrown \in {"none", "CommentParsingError"}
             /\ review.body.t # "string" => ret.thrown = "CommentParsingError"

C18_Witness ==
    /\ call = "analyzeComment"
    /\ review.id = 123
    /\ review.body = Str(<<"P", " ", "x">>)
    /\ storeCalls # <<>>
    /\ ~storeCalls[Len(storeCalls)].ok
    /\ ret = Throw("CodeRabbitError")

\* A step in which a request is issued or retried: the clock stands still
\* and no attempt in flight settles.
IssueStep ==
    /\ now' = now
    /\ \A s \in 1..MaxInFlight : requests[s].pc = "request" => requests'[s] = requests[s]
    /\ <<call, ret, requests, circuitBreakerState>>' # <<call, ret, requests, circuitBreakerState>>

NoNewAttempt ==
    \A s \in 1..MaxInFlight : requests'[s].pc = "request" => requests[s].pc = "request"

\* C19: once five requests in a row have ended in failure, with no
\* successful one between them, the breaker is open; and while it is open
\* and less than circuitBreakerTimeout has passed since the last failure,
\* every request that is issued is rejected at once, with no network attempt.
C19_OpenAfterFiveFailures ==
    [][/\ (failedInARow' # failedInARow /\ failedInARow' >= 5)
             => circuitBreakerState' = "open"
       /\ (circuitBreakerState = "open" /\ now - lastFailureTime < 60000 /\ IssueStep)
             => /\ ret' = Throw(CircuitOpenError)
                /\ NoNewAttempt
                /\ circuitBreakerState' = "open"]_vars

C19_Witness ==
    /\ failedInARow = 5
    /\ consecutiveFailures = 5
    /\ circuitBreakerState = "open"
    /\ now - lastFailureTime < 60000
    /\ call = "makeRequest"
    /\ ret = Throw(CircuitOpenError)
    /\ \A s \in 1..MaxInFlight : requests[s].pc = "idle"

\* C20: when the breaker is open and more than circuitBreakerTimeout has
\* passed since the last failure, the next request is admitted and the
\* breaker is half-open; when that request succeeds the breaker is closed
\* with consecutiveFailures 0; and a request issued while the breaker is
\* closed is admitted.
AdmittedAfterTimeout ==
    (circuitBreakerState = "open" /\ now - lastFailureTime > 60000 /\ IssueStep)
        => /\ circuitBreakerState' = "half-open"
           /\ ret' = Return(Pending)
           /\ \E s \in 1..MaxInFlight :
                 requests[s].pc # "request" /\ requests'[s].pc = "request"

AdmittedWhenClosed ==
    (circuitBreakerState = "closed" /\ IssueStep)
        => /\ ret' = Return(Pending)
           /\ circuitBreakerState' = "closed"

\* the request that moved the breaker to half-open ends in success
ProbeSucceeds ==
    \E s \in 1..MaxInFlight :
        /\ requests[s].pc = "request" /\ requests[s].probe
        /\ requests'[s].pc = "idle"
        /\ ret' = Return(Data)

C20_HalfOpenSuccessCloses ==
    [][/\ AdmittedAfterTimeout
       /\ ProbeSucceeds => (circuitBreakerState' = "closed" /\ consecutiveFailures' = 0)
       /\ AdmittedWhenClosed]_vars

\* C20 as amended: the success closes the breaker when the breaker is still
\* half-open at that moment (no other request has failed since).
C20_HalfOpenSuccessClosesIfStillHalfOpen ==
    [][/\ AdmittedAfterTimeout
       /\ (ProbeSucceeds /\ circuitBreakerState = "half-open")
             => (circuitBreakerState' = "closed" /\ consecutiveFailures' = 0)
       /\ (ProbeSucceeds /\ circuitBreakerState = "open")
             => (circuitBreakerState' = "open" /\ consecutiveFailures' = consecutiveFailures)
       /\ AdmittedWhenClosed]_vars

C20_Witness ==
    /\ circuitBreakerState = "half-open"
    /\ consecutiveFailures >= 5
    /\ now - lastFailureTime > 60000
    /\ call = "makeRequest"
    /\ ret = Return(Pending)
    /\ \E s \in 1..MaxInFlight : requests[s].pc = "request" /\ requests[s].probe

\* the attempt in flight of request s settles and the request is over
Ends(s) == requests[s].pc = "request" /\ requests'[s].pc = "idle"

\* the attempt in flight of request s fails and the request waits to retry
WaitsForRetry(s) == requests[s].pc = "request" /\ requests'[s].pc = "delay"

\* C21: a request whose attempt gets HTTP 401 is not retried, whatever its
\* retries count: a request that starts to wait for a retry has caught one
\* of the other errors; a request whose attempt gets no response ends with
\* that error only when its retries are used up, and otherwise waits and
\* calls makeRequest again with retries + 1; and when an attempt made as a
\* retry settles with no failure recorded, the request returns the response
\* data.
C21_AuthNotRetriedNetworkRetried ==
    [][\A s \in 1..MaxInFlight :
          /\ WaitsForRetry(s)
                => /\ call' # Retrying("401")
                   /\ call' \in {Retrying("403rl"), Retrying("500"), Retrying("network")}
          /\ (Ends(s) /\ ret' = Throw("AuthenticationError"))
                => requests'[s] = Idle
          /\ (Ends(s) /\ ret' = Throw(NoResponseError)) => requests[s].retries >= 3
          /\ (requests[s].pc = "delay" /\ requests'[s] # requests[s])
                => /\ call' = "makeRequest(retry)"
                   /\ \/ ret' = Throw(CircuitOpenError) /\ requests'[s].pc = "idle"
                      \/ /\ requests'[s].pc = "request"
                         /\ requests'[s].retries = requests[s].retries + 1
          /\ (Ends(s) /\ requests[s].retries > 0
                 /\ consecutiveFailures' <= consecutiveFailures)
                => ret' = Return(Data)]_vars

\* an earlier request has ended in failure; a second one, retried once, is
\* waiting for the response of its retry; and the attempt of a third has
\* just got no response and waits for its retry
C21_Witness ==
    /\ call = Retrying("network")
    /\ ret = Return(Pending)
    /\ consecutiveFailures = 1
    /\ \E s, u \in 1..MaxInFlight :
          /\ requests[s].pc = "delay" /\ requests[s].retries = 0
          /\ requests[u].pc = "request" /\ requests[u].retries = 1

\* C26: in every reachable state, with requests in flight settling in any
\* order, the breaker is closed exactly when consecutiveFailures is below 5,
\* and it is open or half-open only with consecutiveFailures at least 5.
C26_ClosedIffBelowThreshold ==
    /\ (circuitBreakerState = "closed") <=> (consecutiveFailures < 5)
    /\ circuitBreakerState \in {"open", "half-open"} => consecutiveFailures >= 5

\* a request in flight has failed after another one had opened the breaker,
\* and a third call has been made since
C26_Witness ==
    /\ circuitBreakerState = "half-open"
    /\ consecutiveFailures > 5
    /\ failedInARow = consecutiveFailures
    /\ \E s \in 1..MaxInFlight : requests[s].pc = "request"

\* C27: a request makes at most maxRetries + 1 = 4 network attempts (the
\* one in flight is number retries + 1, and a request that waits for a retry
\* has made fewer than 4); a failed attempt that is retried, and the retry
\* call itself, leave consecutiveFailures and the breaker state alone; a
\* request that ends in failure adds exactly one to consecutiveFailures; and
\* the breaker goes from closed to open only at the fifth failed request in
\* a row, not at the fifth failed attempt.
C27_OneFailurePerRequest ==
    [][/\ \A s \in 1..MaxInFlight :
             /\ requests'[s].pc = "request" => requests'[s].retries + 1 <= 4
             /\ requests'[s].pc = "delay" => requests'[s].retries + 1 < 4
             /\ (WaitsForRetry(s)
                   \/ (requests[s].pc = "delay" /\ requests'[s] # requests[s]))
                   => /\ consecutiveFailures' = consecutiveFailures
                      /\ lastFailureTime' = lastFailureTime
                      /\ (circuitBreakerState' # circuitBreakerState
                            => circuitBreakerState' = "half-open")
             /\ (Ends(s) /\ ret'.thrown # "none")
                   => consecutiveFailures' = consecutiveFailures + 1
       /\ consecutiveFailures' \in {consecutiveFailures, consecutiveFailures + 1, 0}
       /\ (circuitBreakerState = "closed" /\ circuitBreakerState' = "open")
             => failedInARow' = 5]_vars

\* six attempts of two requests have failed and no request has: the count
\* is still 0 and the breaker closed
C27_Witness ==
    /\ circuitBreakerState = "closed"
    /\ consecutiveFailures = 0
    /\ failedInARow = 0
    /\ \E s, u \in 1..MaxInFlight :
          /\ s # u
          /\ requests[s].pc = "request" /\ requests[s].retries = 3
          /\ requests[u].pc = "delay" /\ requests[u].retries = 2

\* a request ends in failure in this step
RequestFails == \E s \in 1..MaxInFlight : Ends(s) /\ ret'.thrown # "none"

\* C28: when a request admitted by the half-open breaker ends in failure
\* while the breaker is half-open, the breaker is open again and the time
\* of that failure is the one the timeout counts from; a request issued
\* while less than circuitBreakerTimeout has passed since it is rejected with
\* no network attempt; and the breaker becomes closed only in a step in
\* which a request returns its response.
C28_HalfOpenFailureReopens ==
    [][/\ (circuitBreakerState = "half-open" /\ RequestFails)
             => /\ circuitBreakerState' = "open"
                /\ lastFailureTime' = now
                /\ consecutiveFailures' > 5
       /\ (circuitBreakerState = "open" /\ lastFailureTime > 60000
              /\ now - lastFailureTime < 60000 /\ IssueStep)
             => (ret' = Throw(CircuitOpenError) /\ NoNewAttempt)
       /\ (circuitBreakerState # "closed" /\ circuitBreakerState' = "closed")
             => /\ ret' = Return(Data)
                /\ \E s \in 1..MaxInFlight : Ends(s)]_vars

\* while the request that moved the breaker to half-open is still in
\* flight, another request admitted after it has failed, and the call made
\* next is rejected
C28_Witness ==
    /\ circuitBreakerState = "open"
    /\ consecutiveFailures > 5
    /\ lastFailureTime > 60000
    /\ now - lastFailureTime < 60000
    /\ call = "makeRequest"
    /\ ret = Throw(CircuitOpenError)
    /\ \E s \in 1..MaxInFlight : requests[s].pc = "request" /\ requests[s].probe

(***************************************************************************)
(* Properties of syncPrComments and of DatabaseService.                    *)
(***************************************************************************)
\* a step in which syncPrComments runs from the answer of getReviewComments
\* to its return value
SyncReturns ==
    /\ sync.pc = "fetch"
    /\ call' = "syncPrComments"
    /\ ret'.thrown = "none"

\* a fetched comment that counts as one of CodeRabbit: the login, or a bot
\* whose body holds the label
SyncClassified(r) ==
    \/ r.user.login = "coderabbitai"
    \/ r.user.type = "Bot" /\ \E i \in 1..Len(r.body.v) : r.body.v[i] \in {"L", "P"}

\* C22: when syncPrComments returns, synced is the number of fetched comments
\* classified as CodeRabbit and new is the number of records created, with
\* new + updated <= synced; a classified comment that had a record under
\* its id before the call leaves that record with the comment's body if the
\* body differed and leaves it as it was if the body was the same; and,
\* when no classified comment carries the id of a record created in the
\* same call, every record created holds a classified comment and updated
\* is the number of records changed.
C22_SyncCreatesUpdatesOrSkips ==
    [][SyncReturns =>
          LET cls == SelectSeq(fetched', SyncClassified)
              old == 1..Len(commentTable)
              created == (Len(commentTable) + 1)..Len(commentTable')
              counts == ret'.value.v
          IN  /\ counts.synced = Len(cls)
              /\ counts.new = Cardinality(created)
              /\ counts.new + counts.updated <= counts.synced
              /\ \A k \in 1..Len(cls) :
                    cls[k].id \in old
                        => IF commentTable[cls[k].id].original_comment # cls[k].body
                           THEN commentTable'[cls[k].id].original_comment = cls[k].body
                           ELSE commentTable'[cls[k].id] = commentTable[cls[k].id]
              /\ (\A k \in 1..Len(cls) : cls[k].id \notin created)
                    => /\ \A i \in created :
                            \E k \in 1..Len(cls) :
                                /\ commentTable'[i].original_comment = cls[k].body
                                /\ commentTable'[i].author = cls[k].user.login
                       /\ counts.updated
                             = Cardinality({i \in old :
                                              commentTable'[i] # commentTable[i]})]_vars

\* the PR and comment operations of DatabaseService
DatabaseOperations ==
    {"createPr", "getPr", "listPrs", "createComment", "getComment",
     "updateComment", "getCommentsByPr", "markCommentReplied",
     "markCommentFixed", "getPrStats", "transaction"}

\* C23: while the service has no connection (after close(), and until a
\* connect() succeeds) every PR and comment operation throws DatabaseError;
\* close() always completes without error and leaves the service closed,
\* also when it was closed already; after a connect() that succeeded the
\* operations that read or mark rows complete.
C23_ClosedServiceThrows ==
    /\ (db = "null" /\ call \in DatabaseOperations) => ret = Throw(DatabaseError)
    /\ call = "close" => (db = "null" /\ ret = Return(Undefined))
    /\ (call = "connect" /\ ret.thrown = "none") => db = "Database"
    /\ (db = "Database"
          /\ call \in DatabaseOperations \ {"createPr", "createComment", "transaction"})
            => ret.thrown = "none"

C23_Witness ==
    /\ db = "null"
    /\ call = "getPrStats"
    /\ ret = Throw(DatabaseError)
    /\ prTable # <<>>
    /\ commentTable # <<>>

\* no two rows of the pr table hold the same repo and number
UniquePrs(prs) ==
    \A i, j \in 1..Len(prs) :
        (prs[i].repo = prs[j].repo /\ prs[i].number = prs[j].number) => i = j

\* C24: no two stored PRs share (repo, number); on a connected service a
\* createPr for a pair that is stored throws DatabaseError and leaves the
\* stored PRs as they were, and a createPr for a pair that is not stored
\* (the same number under another repo included) adds the PR and returns it.
C24_UniqueRepoNumber ==
    [][/\ UniquePrs(prTable')
       /\ (call' = "createPr" /\ db = "Database")
             => IF \E i \in 1..Len(prTable) :
                      prTable[i].repo = arg'[1] /\ prTable[i].number = arg'[2]
                THEN ret' = Throw(DatabaseError) /\ prTable' = prTable
                ELSE /\ ret'.thrown = "none"
                     /\ Len(prTable') = Len(prTable) + 1
                     /\ SubSeq(prTable', 1, Len(prTable)) = prTable
                     /\ prTable'[Len(prTable')].repo = arg'[1]
                     /\ prTable'[Len(prTable')].number = arg'[2]
                     /\ ret'.value.v = prTable'[Len(prTable')]]_vars

C24_Witness ==
    /\ db = "Database"
    /\ call = "createPr"
    /\ ret = Throw(DatabaseError)
    /\ Len(prTable) = 2
    /\ prTable[1].number = prTable[2].number
    /\ prTable[1].repo # prTable[2].repo
    /\ arg = <<prTable[2].repo, prTable[2].number>>

\* the rows of the comment table that belong to a pull request
CommentsOf(cs, prId) == {i \in 1..Len(cs) : cs[i].pr_id = prId}

\* C25: createComment adds a comment that is neither replied nor fixed,
\* markCommentReplied marks the comment of the id replied and
\* markCommentFixed marks it fixed, each leaving every other comment as it
\* was; getPrStats(pr) then reports as total the number of comments of pr,
\* as replied and fixed the numbers of them marked so (both at most total),
\* and as pending_ids the ids of the comments of pr not replied, each once
\* and separated by commas, or null when there is none.  Comments of other
\* PRs are not counted.
C25_StatsCountCommentsOfPr ==
    [][/\ (call' = "createComment" /\ ret'.thrown = "none")
             => /\ Len(commentTable') = Len(commentTable) + 1
                /\ SubSeq(commentTable', 1, Len(commentTable)) = commentTable
                /\ ~commentTable'[Len(commentTable')].replied
                /\ ~commentTable'[Len(commentTable')].fix_applied
                /\ commentTable'[Len(commentTable')].pr_id = arg'[1].pr_id
       /\ (call' = "markCommentReplied" /\ ret'.thrown = "none")
             => \A i \in 1..Len(commentTable) :
                    IF i = arg'[1]
                    THEN /\ commentTable'[i].replied
                         /\ commentTable'[i].fix_applied = commentTable[i].fix_applied
                         /\ commentTable'[i].pr_id = commentTable[i].pr_id
                    ELSE commentTable'[i] = commentTable[i]
       /\ (call' = "markCommentFixed" /\ ret'.thrown = "none")
             => \A i \in 1..Len(commentTable) :
                    IF i = arg'[1]
                    THEN /\ commentTable'[i].fix_applied
                         /\ commentTable'[i].replied = commentTable[i].replied
                         /\ commentTable'[i].pr_id = commentTable[i].pr_id
                    ELSE commentTable'[i] = commentTable[i]
       /\ (call' \in {"markCommentReplied", "markCommentFixed"})
             => Len(commentTable') = Len(commentTable)
       /\ (call' = "getPrStats" /\ ret'.thrown = "none")
             => LET of == CommentsOf(commentTable', arg'[1])
                    pending == {i \in of : ~commentTable'[i].replied}
                    stats == ret'.value.v
                IN  /\ commentTable' = commentTable
                    /\ stats.total = Cardinality(of)
                    /\ stats.replied = Cardinality({i \in of : commentTable'[i].replied})
                    /\ stats.fixed = Cardinality({i \in of : commentTable'[i].fix_applied})
                    /\ stats.replied <= stats.total
                    /\ stats.fixed <= stats.total
                    /\ IF pending = {} THEN stats.pending_ids = Null
                       ELSE /\ stats.pending_ids.t = "string"
                            /\ LET text == stats.pending_ids.v
                               IN  /\ Len(text) = 2 * Cardinality(pending) - 1
                                   /\ \A j \in 1..Len(text) :
                                         IF j % 2 = 0 THEN text[j] = ","
                                         ELSE \E i \in pending : text[j] = ToString(i)
                                   /\ \A i \in pending :
                                         \E j \in 1..Len(text) : text[j] = ToString(i)]_vars

C25_Witness ==
    /\ db = "Database"
    /\ call = "getPrStats"
    /\ Len(commentTable) = 2
    /\ commentTable[1].pr_id # arg[1]
    /\ commentTable[1].replied
    /\ commentTable[2].pr_id = arg[1]
    /\ commentTable[2].fix_applied
    /\ ret = Return(Obj([total |-> 1, replied |-> 0, fixed |-> 1,
                         pending_ids |-> Str(<<"2">>)]))

====
